---------------------------- MODULE Spec2Model ----------------------------
(***************************************************************************)
(* A model of the vacancy/resume extraction pipeline:                      *)
(*   HHParser      (src/hh_parser.py)     content string -> record         *)
(*   MHTMLParser   (src/extract_mhtml.py) archive file -> flowed text      *)
(*                                                                         *)
(* Text is a sequence of Unicode code points, a payload is a sequence of   *)
(* byte values, so that decoding, lower-casing, stripping and substring    *)
(* tests are computed and not assumed.                                     *)
(***************************************************************************)
EXTENDS Integers, Sequences, FiniteSets, TLC

Null == "None"                \* None where a name (a string) may stand
Absent == [absent |-> TRUE]   \* None where a record may stand

(***************************************************************************)
(* Python str / bytes primitives used by the parsers.                      *)
(***************************************************************************)

\* the code points for which str.isspace() holds (what str.strip() removes)
IsSpace(c) ==
    c \in {9, 10, 11, 12, 13, 28, 29, 30, 31, 32, 133, 160, 5760, 8232, 8233,
           8239, 8287, 12288} \/ (c >= 8192 /\ c <= 8202)

\* str.lower() on one code point: ASCII, Cyrillic U+0410..U+042F, U+0400..U+040F
LowerChar(c) ==
    IF c >= 65 /\ c <= 90 THEN c + 32
    ELSE IF c >= 1040 /\ c <= 1071 THEN c + 32
    ELSE IF c >= 1024 /\ c <= 1039 THEN c + 80
    ELSE c

Lower(s) == [i \in 1..Len(s) |-> LowerChar(s[i])]

\* Python's  sub in s
Contains(s, sub) ==
    \E i \in 0..(Len(s) - Len(sub)) : SubSeq(s, i + 1, i + Len(sub)) = sub

StartsWith(s, pre) == Len(s) >= Len(pre) /\ SubSeq(s, 1, Len(pre)) = pre

RECURSIVE LStrip(_)
LStrip(s) == IF s # <<>> /\ IsSpace(Head(s)) THEN LStrip(Tail(s)) ELSE s

RECURSIVE RStrip(_)
RStrip(s) ==
    IF s # <<>> /\ IsSpace(s[Len(s)]) THEN RStrip(SubSeq(s, 1, Len(s) - 1)) ELSE s

\* str.strip()
Strip(s) == RStrip(LStrip(s))

\* sep.join(list)
RECURSIVE Join(_, _)
Join(sep, list) ==
    IF list = <<>> THEN <<>>
    ELSE IF Len(list) = 1 THEN list[1]
    ELSE list[1] \o sep \o Join(sep, Tail(list))

\* str.split(c) on a one-character separator: always at least one piece
RECURSIVE SplitAcc(_, _, _)
SplitAcc(s, c, cur) ==
    IF s = <<>> THEN <<cur>>
    ELSE IF Head(s) = c THEN <<cur>> \o SplitAcc(Tail(s), c, <<>>)
    ELSE SplitAcc(Tail(s), c, Append(cur, Head(s)))

Split(s, c) == SplitAcc(s, c, <<>>)

\* [f(x) for x in list if p(x)] helpers
RECURSIVE SelectSeqIdx(_, _)
SelectSeqIdx(list, keep) ==
    IF list = <<>> THEN <<>>
    ELSE (IF 1 \in keep THEN <<Head(list)>> ELSE <<>>)
         \o SelectSeqIdx(Tail(list), {i - 1 : i \in keep \ {1}})

(***************************************************************************)
(* Codecs: bytes.decode(encoding, errors).                                 *)
(***************************************************************************)

Replacement == <<65533>>   \* U+FFFD, errors="replace"

IsCont(b) == b >= 128 /\ b <= 191

\* the first continuation byte a lead byte admits (no overlongs, no surrogates)
FirstContOk(lead, b) ==
    IF lead = 224 THEN b >= 160 /\ b <= 191
    ELSE IF lead = 237 THEN b >= 128 /\ b <= 159
    ELSE IF lead = 240 THEN b >= 144 /\ b <= 191
    ELSE IF lead = 244 THEN b >= 128 /\ b <= 143
    ELSE IsCont(b)

\* how many bytes the sequence started by a lead byte needs; 0: not a lead byte
Utf8Need(b) ==
    IF b < 128 THEN 1
    ELSE IF b >= 194 /\ b <= 223 THEN 2
    ELSE IF b >= 224 /\ b <= 239 THEN 3
    ELSE IF b >= 240 /\ b <= 244 THEN 4
    ELSE 0

\* One decoding step at the head of bs: [ok, cp, used].  When not ok, used is
\* the length of the maximal invalid subpart, which one error covers.
Utf8Step(bs) ==
    LET b == bs[1]
        need == Utf8Need(b)
        n == Len(bs)
    IN  IF need = 0 THEN [ok |-> FALSE, cp |-> 0, used |-> 1]
        ELSE IF need = 1 THEN [ok |-> TRUE, cp |-> b, used |-> 1]
        ELSE IF n < 2 \/ ~FirstContOk(b, bs[2]) THEN [ok |-> FALSE, cp |-> 0, used |-> 1]
        ELSE IF need = 2 THEN [ok |-> TRUE, cp |-> (b - 192) * 64 + (bs[2] - 128), used |-> 2]
        ELSE IF n < 3 \/ ~IsCont(bs[3]) THEN [ok |-> FALSE, cp |-> 0, used |-> 2]
        ELSE IF need = 3
             THEN [ok |-> TRUE,
                   cp |-> (b - 224) * 4096 + (bs[2] - 128) * 64 + (bs[3] - 128),
                   used |-> 3]
        ELSE IF n < 4 \/ ~IsCont(bs[4]) THEN [ok |-> FALSE, cp |-> 0, used |-> 3]
        ELSE [ok |-> TRUE,
              cp |-> (b - 240) * 262144 + (bs[2] - 128) * 4096
                     + (bs[3] - 128) * 64 + (bs[4] - 128),
              used |-> 4]

\* whether bytes.decode("utf-8") raises UnicodeDecodeError
RECURSIVE Utf8Valid(_)
Utf8Valid(bs) ==
    IF bs = <<>> THEN TRUE
    ELSE LET st == Utf8Step(bs)
         IN  st.ok /\ Utf8Valid(SubSeq(bs, st.used + 1, Len(bs)))

\* bytes.decode("utf-8", errors=...): every invalid subpart becomes onError
\* (<<>> for "ignore", U+FFFD for "replace"); equals the strict result on valid input
RECURSIVE Utf8DecodeWith(_, _)
Utf8DecodeWith(bs, onError) ==
    IF bs = <<>> THEN <<>>
    ELSE LET st == Utf8Step(bs)
         IN  (IF st.ok THEN <<st.cp>> ELSE onError)
             \o Utf8DecodeWith(SubSeq(bs, st.used + 1, Len(bs)), onError)

\* windows-1251, bytes 0x80..0xBF (0: undefined, only 0x98)
Cp1251High ==
    <<1026, 1027, 8218, 1107, 8222, 8230, 8224, 8225, 8364, 8240, 1033, 8249,
      1034, 1036, 1035, 1039, 1106, 8216, 8217, 8220, 8221, 8226, 8211, 8212,
      0, 8482, 1113, 8250, 1114, 1116, 1115, 1119, 160, 1038, 1118, 1032, 164,
      1168, 166, 167, 1025, 169, 1028, 171, 172, 173, 174, 1031, 176, 177,
      1030, 1110, 1169, 181, 182, 183, 1105, 8470, 1108, 187, 1112, 1029,
      1109, 1111>>

Cp1251Char(b) ==
    IF b < 128 THEN b
    ELSE IF b >= 192 THEN 1040 + (b - 192)
    ELSE Cp1251High[b - 127]

Cp1251Valid(bs) == \A i \in 1..Len(bs) : Cp1251Char(bs[i]) # 0

Cp1251Decode(bs) == [i \in 1..Len(bs) |-> Cp1251Char(bs[i])]

\* latin-1 decodes every byte to the code point of the same value
Latin1Decode(bs) == bs

IsAscii(bs) == \A i \in 1..Len(bs) : bs[i] < 128

\* str.encode("utf-8") of code points below U+10000
Utf8EncodeChar(c) ==
    IF c < 128 THEN <<c>>
    ELSE IF c < 2048 THEN <<192 + (c \div 64), 128 + (c % 64)>>
    ELSE <<224 + (c \div 4096), 128 + ((c \div 64) % 64), 128 + (c % 64)>>

RECURSIVE Utf8Encode(_)
Utf8Encode(s) == IF s = <<>> THEN <<>> ELSE Utf8EncodeChar(Head(s)) \o Utf8Encode(Tail(s))

\* str.encode("windows-1251") of the characters the code page has
Cp1251EncodeChar(c) ==
    IF c < 128 THEN c
    ELSE IF c >= 1040 /\ c <= 1103 THEN c - 1040 + 192
    ELSE 127 + CHOOSE k \in 1..Len(Cp1251High) : Cp1251High[k] = c

Cp1251Encode(s) == [i \in 1..Len(s) |-> Cp1251EncodeChar(s[i])]


(***************************************************************************)
(* The parsed tree (BeautifulSoup).  A tree is the sequence of its nodes   *)
(* in document order; a node names its parent by index, 0 being the        *)
(* BeautifulSoup object itself.  A text node has name "#text" and carries  *)
(* its string in str; an element carries its data-qa value (qa), its class *)
(* tokens (cls) and its href attribute (href, <<>> when it has none).      *)
(***************************************************************************)

Root == 0
NoNode == -1     \* what find() returns when nothing matches (Python None)

El(name, qa, cls, parent) ==
    [name |-> name, qa |-> qa, cls |-> cls, href |-> <<>>, str |-> <<>>,
     parent |-> parent]

Anchor(href, parent) ==
    [name |-> "a", qa |-> "", cls |-> {}, href |-> <<href>>, str |-> <<>>,
     parent |-> parent]

Txt(str, parent) ==
    [name |-> "#text", qa |-> "", cls |-> {}, href |-> <<>>, str |-> str,
     parent |-> parent]

\* frag appended to base, its top nodes (parent 0) hung below node at
Attach(base, frag, at) ==
    base \o [i \in 1..Len(frag) |->
                [frag[i] EXCEPT !.parent =
                    IF frag[i].parent = 0 THEN at ELSE frag[i].parent + Len(base)]]

RECURSIVE AttachAll(_, _, _)
AttachAll(base, frags, at) ==
    IF frags = <<>> THEN base
    ELSE AttachAll(Attach(base, Head(frags), at), Tail(frags), at)

IsTag(t, i) == i # NoNode /\ i # Root /\ t[i].name # "#text"

\* whether a is a proper ancestor of d
RECURSIVE IsAncestor(_, _, _)
IsAncestor(t, a, d) ==
    IF d = Root \/ d = NoNode THEN FALSE
    ELSE t[d].parent = a \/ IsAncestor(t, a, t[d].parent)

\* element.descendants, as a set of indices (document order is index order:
\* every node comes after its parent, and all nodes are below the root)
Descendants(t, i) ==
    IF i = Root THEN 1..Len(t) ELSE {j \in (i + 1)..Len(t) : IsAncestor(t, i, j)}

Min(S) == CHOOSE x \in S : \A y \in S : x <= y

\* the indices of a set in document order
RECURSIVE InOrder(_)
InOrder(S) == IF S = {} THEN <<>> ELSE <<Min(S)>> \o InOrder(S \ {Min(S)})

\* what find()/find_all() is asked for: attrs={"data-qa": v}, class_=v or a name
ByQa(v) == [by |-> "data-qa", v |-> v]
ByClass(v) == [by |-> "class", v |-> v]
ByName(v) == [by |-> "name", v |-> v]

Matches(n, sel) ==
    IF sel.by = "data-qa" THEN n.qa = sel.v
    ELSE IF sel.by = "class" THEN sel.v \in n.cls
    ELSE n.name = sel.v

\* scope.find_all(...): the matching tags below scope, in document order
FindAllSet(t, scope, sel) ==
    IF scope = NoNode THEN {}
    ELSE {j \in Descendants(t, scope) : IsTag(t, j) /\ Matches(t[j], sel)}

FindAll(t, scope, sel) == InOrder(FindAllSet(t, scope, sel))

\* scope.find(...): the first matching tag below scope, or None
Find(t, scope, sel) ==
    LET S == FindAllSet(t, scope, sel) IN IF S = {} THEN NoNode ELSE Min(S)

\* the strings a tag's get_text() sees: those of its text descendants
TextNodes(t, i) ==
    IF i = NoNode THEN <<>>
    ELSE IF i # Root /\ t[i].name = "#text" THEN <<i>>
    ELSE InOrder({j \in Descendants(t, i) : t[j].name = "#text"})

\* tag.get_text(): the strings concatenated
RECURSIVE ConcatStr(_, _)
ConcatStr(t, idx) ==
    IF idx = <<>> THEN <<>> ELSE t[Head(idx)].str \o ConcatStr(t, Tail(idx))

GetTextRaw(t, i) == ConcatStr(t, TextNodes(t, i))

\* tag.get_text(separator=" ", strip=True): every string stripped, the empty
\* ones dropped, the rest joined by one space
RECURSIVE StrippedStrs(_, _)
StrippedStrs(t, idx) ==
    IF idx = <<>> THEN <<>>
    ELSE LET s == Strip(t[Head(idx)].str)
         IN  (IF s = <<>> THEN <<>> ELSE <<s>>) \o StrippedStrs(t, Tail(idx))

Space == <<32>>

\* HHParser._extract_text
ExtractText(t, element) ==
    IF element = NoNode THEN <<>>
    ELSE Join(Space, StrippedStrs(t, TextNodes(t, element)))

\* [self._extract_text(x) for x in tags]
ExtractTexts(t, tags) == [k \in 1..Len(tags) |-> ExtractText(t, tags[k])]

\* tag.find_parent(class_=c): the nearest proper ancestor tag with the class
RECURSIVE FindParentClass(_, _, _)
FindParentClass(t, i, c) ==
    IF i = Root \/ i = NoNode THEN NoNode
    ELSE LET p == t[i].parent
         IN  IF p = Root THEN NoNode
             ELSE IF c \in t[p].cls THEN p
             ELSE FindParentClass(t, p, c)

(***************************************************************************)
(* String literals of src/hh_parser.py, as code points.                    *)
(***************************************************************************)

WordVacancy == <<1074, 1072, 1082, 1072, 1085, 1089, 1080, 1103>>
    \* "вакансия"
WordRelocation == <<1087, 1077, 1088, 1077, 1077, 1079, 1076, 1091>>
    \* "переезду"
WordTrips == <<1082, 1086, 1084, 1072, 1085, 1076, 1080, 1088, 1086, 1074, 1082, 1072, 1084>>
    \* "командировкам"
WordSkills == <<1085, 1072, 1074, 1099, 1082, 1080>>
    \* "навыки"
WordLearn == <<1085, 1072, 1091, 1095, 1080, 1090, 1100, 1089, 1103>>
    \* "научиться"
WordHhRu == <<104, 104, 46, 114, 117>>
    \* "hh.ru"
WordJavascript == <<106, 97, 118, 97, 115, 99, 114, 105, 112, 116>>
    \* "javascript"
Comma == 44
Dot == <<46>>
CommaSpace == <<44, 32>>

(***************************************************************************)
(* HHParser._parse_resume                                                  *)
(***************************************************************************)

ResumeKeys ==
    {"type", "name", "title", "salary", "gender", "age", "birth_date", "area",
     "relocation", "metro", "specializations", "employment_modes",
     "experience_total", "experience_items", "education_items",
     "language_items", "skills", "driver_experience", "about", "citizenship"}

\* a record created without the key that only a found marker assigns
ResumeDefaultsNoBirthDate ==
    [type |-> "resume", name |-> <<>>, title |-> <<>>, salary |-> <<>>,
     gender |-> <<>>, age |-> <<>>, area |-> <<>>,
     relocation |-> <<>>, metro |-> <<>>, specializations |-> <<>>,
     employment_modes |-> <<>>, experience_total |-> <<>>,
     experience_items |-> <<>>, education_items |-> <<>>,
     language_items |-> <<>>, skills |-> <<>>, driver_experience |-> <<>>,
     about |-> <<>>, citizenship |-> <<>>]

\* the record as created, every field at its default
ResumeDefaults ==
    [type |-> "resume", name |-> <<>>, title |-> <<>>, salary |-> <<>>,
     gender |-> <<>>, age |-> <<>>, birth_date |-> <<>>, area |-> <<>>,
     relocation |-> <<>>, metro |-> <<>>, specializations |-> <<>>,
     employment_modes |-> <<>>, experience_total |-> <<>>,
     experience_items |-> <<>>, education_items |-> <<>>,
     language_items |-> <<>>, skills |-> <<>>, driver_experience |-> <<>>,
     about |-> <<>>, citizenship |-> <<>>]

\* the text of the first element carrying the marker, "" when there is none
MarkerText(soup, qa) == ExtractText(soup, Find(soup, Root, ByQa(qa)))

\* data[key] = value
Put(data, key, value) ==
    [k \in DOMAIN data \cup {key} |-> IF k = key THEN value ELSE data[k]]

\* if element: data[key] = self._extract_text(element)
PutIfFound(data, key, soup, element) ==
    IF element # NoNode THEN Put(data, key, ExtractText(soup, element)) ELSE data

\* metro: the marker, else the class
MetroEl(soup) ==
    LET byQa == Find(soup, Root, ByQa("resume-personal-metro"))
    IN  IF byQa = NoNode THEN Find(soup, Root, ByClass("metro-station")) ELSE byQa

\* [p.strip() for p in text.split(',')]
StripAll(parts) == [k \in 1..Len(parts) |-> Strip(parts[k])]

IsRelocationPart(p) ==
    Contains(Lower(p), WordRelocation) \/ Contains(Lower(p), WordTrips)

\* relocation: the comma-separated pieces of the text of the address marker's
\* parent that name relocation or business trips
RelocationParts(soup) ==
    LET addr_el == Find(soup, Root, ByQa("resume-personal-address"))
    IN  IF addr_el = NoNode THEN <<>>
        ELSE LET full_personal_text == ExtractText(soup, soup[addr_el].parent)
                 parts == StripAll(Split(full_personal_text, Comma))
             IN  SelectSeqIdx(parts, {k \in 1..Len(parts) : IsRelocationPart(parts[k])})

\* the enclosing resume-block-container of the specialization category marker
SpecContainer(soup) ==
    LET spec_cat == Find(soup, Root, ByQa("resume-block-specialization-category"))
    IN  IF spec_cat = NoNode THEN NoNode
        ELSE FindParentClass(soup, spec_cat, "resume-block-container")

\* section 2: employment modes and specializations, inside the container
ResumeSpecialization(data, soup) ==
    LET container == SpecContainer(soup)
    IN  IF container = NoNode THEN data
        ELSE Put(Put(data, "employment_modes",
                     ExtractTexts(soup, FindAll(soup, container, ByName("p")))),
                 "specializations",
                 ExtractTexts(soup, FindAll(soup, container,
                     ByQa("resume-block-position-specialization"))))

\* right_col.find('a', href=True)
FindLink(soup, scope) ==
    LET S == {j \in Descendants(soup, scope) :
                 soup[j].name = "a" /\ soup[j].href # <<>>}
    IN  IF S = {} THEN NoNode ELSE Min(S)

\* website of an experience block: the href of the first anchor with an href
\* if it is neither an hh.ru nor a javascript link, else that anchor's text
\* if it contains a dot
ExperienceWebsite(soup, right_col) ==
    LET link == FindLink(soup, right_col)
    IN  IF link = NoNode THEN <<>>
        ELSE LET href == soup[link].href[1]
                 website == IF ~Contains(href, WordHhRu) /\ ~Contains(href, WordJavascript)
                            THEN href ELSE <<>>
             IN  IF Contains(ExtractText(soup, link), Dot) /\ website = <<>>
                 THEN ExtractText(soup, link)
                 ELSE website

ExperienceCompany(soup, right_col) ==
    LET company == ExtractText(soup,
                       Find(soup, right_col, ByQa("resume-block-experience-employer")))
        company_el == Find(soup, right_col, ByClass("bloko-text_strong"))
    IN  IF company = <<>> /\ company_el # NoNode
        THEN ExtractText(soup, company_el) ELSE company

\* one block of the experience section, its description the marker's text only
ExperienceItemMarkerOnly(soup, item, right_col) ==
    LET ind_el == Find(soup, right_col, ByClass("resume-block__experience-industries"))
    IN  [period |-> ExtractText(soup, Find(soup, item, ByClass("bloko-column_l-2"))),
         company |-> ExperienceCompany(soup, right_col),
         website |-> ExperienceWebsite(soup, right_col),
         industry |-> IF ind_el # NoNode THEN ExtractText(soup, ind_el) ELSE <<>>,
         position |-> ExtractText(soup,
                          Find(soup, right_col, ByQa("resume-block-experience-position"))),
         description |-> ExtractText(soup,
                          Find(soup, right_col, ByQa("resume-block-experience-description")))]

\* one block of the experience section (its wide column exists)
ExperienceItem(soup, item, right_col) ==
    LET company == ExperienceCompany(soup, right_col)
        ind_el == Find(soup, right_col, ByClass("resume-block__experience-industries"))
        position == ExtractText(soup,
                        Find(soup, right_col, ByQa("resume-block-experience-position")))
        description == ExtractText(soup,
                        Find(soup, right_col, ByQa("resume-block-experience-description")))
    IN  [period |-> ExtractText(soup, Find(soup, item, ByClass("bloko-column_l-2"))),
         company |-> company,
         website |-> ExperienceWebsite(soup, right_col),
         industry |-> IF ind_el # NoNode THEN ExtractText(soup, ind_el) ELSE <<>>,
         position |-> position,
         description |-> IF company = <<>> /\ position = <<>> /\ description = <<>>
                         THEN ExtractText(soup, right_col) ELSE description]

\* the loop over the blocks, leaving at the first block without a wide column
RECURSIVE ExperienceLoopStops(_, _)
ExperienceLoopStops(soup, items) ==
    IF items = <<>> THEN <<>>
    ELSE LET item == Head(items)
             right_col == Find(soup, item, ByClass("bloko-column_l-10"))
         IN  IF right_col = NoNode THEN <<>>
             ELSE <<ExperienceItem(soup, item, right_col)>>
                  \o ExperienceLoopStops(soup, Tail(items))

\* the loop over the blocks: a block without a wide column is skipped
RECURSIVE ExperienceLoop(_, _)
ExperienceLoop(soup, items) ==
    IF items = <<>> THEN <<>>
    ELSE LET item == Head(items)
             right_col == Find(soup, item, ByClass("bloko-column_l-10"))
         IN  (IF right_col = NoNode THEN <<>>
              ELSE <<ExperienceItem(soup, item, right_col)>>)
             \o ExperienceLoop(soup, Tail(items))

ResumeExperienceItems(soup) ==
    LET exp_container == Find(soup, Root, ByQa("resume-block-experience"))
    IN  IF exp_container = NoNode THEN <<>>
        ELSE ExperienceLoop(soup,
                 FindAll(soup, exp_container, ByClass("resume-block-item-gap")))

EducationKey(e) == <<e.year, e.name, e.details>>

\* a loop that appends every block, seen before or not
RECURSIVE EducationLoopKeepAll(_, _, _)
EducationLoopKeepAll(soup, items, seen_education) ==
    IF items = <<>> THEN <<>>
    ELSE LET item == Head(items)
             right_col == Find(soup, item, ByClass("bloko-column_l-10"))
             e == [year |-> ExtractText(soup, Find(soup, item, ByClass("bloko-column_l-2"))),
                   name |-> ExtractText(soup,
                       Find(soup, right_col, ByQa("resume-block-education-name"))),
                   details |-> ExtractText(soup,
                       Find(soup, right_col, ByQa("resume-block-education-organization")))]
         IN  IF right_col # NoNode
             THEN <<e>> \o EducationLoopKeepAll(soup, Tail(items), seen_education)
             ELSE EducationLoopKeepAll(soup, Tail(items), seen_education)

\* the loop over the education blocks, with the set of keys seen so far
RECURSIVE EducationLoop(_, _, _)
EducationLoop(soup, items, seen_education) ==
    IF items = <<>> THEN <<>>
    ELSE LET item == Head(items)
             right_col == Find(soup, item, ByClass("bloko-column_l-10"))
             e == [year |-> ExtractText(soup, Find(soup, item, ByClass("bloko-column_l-2"))),
                   name |-> ExtractText(soup,
                       Find(soup, right_col, ByQa("resume-block-education-name"))),
                   details |-> ExtractText(soup,
                       Find(soup, right_col, ByQa("resume-block-education-organization")))]
         IN  IF right_col # NoNode /\ EducationKey(e) \notin seen_education
             THEN <<e>> \o EducationLoop(soup, Tail(items),
                                         seen_education \cup {EducationKey(e)})
             ELSE EducationLoop(soup, Tail(items), seen_education)

ResumeEducationItems(soup) ==
    LET edu_container == Find(soup, Root, ByQa("resume-block-education"))
    IN  IF edu_container = NoNode THEN <<>>
        ELSE EducationLoop(soup,
                 FindAll(soup, edu_container, ByClass("resume-block-item-gap")), {})

\* soup.find(lambda tag: tag.name == "h2" and word in tag.get_text().lower())
FindHeading(soup, word) ==
    LET S == {j \in 1..Len(soup) :
                 soup[j].name = "h2" /\ Contains(Lower(GetTextRaw(soup, j)), word)}
    IN  IF S = {} THEN NoNode ELSE Min(S)

SkillsContainer(soup) ==
    LET byQa == Find(soup, Root, ByQa("skills-table"))
        header == FindHeading(soup, WordSkills)
    IN  IF byQa # NoNode THEN byQa
        ELSE IF header # NoNode THEN FindParentClass(soup, header, "resume-block")
        ELSE NoNode

ResumeSkills(data, soup) ==
    LET skills_container == SkillsContainer(soup)
    IN  IF skills_container = NoNode THEN data
        ELSE LET byQa == FindAll(soup, skills_container, ByQa("bloko-tag__text"))
                 tags == IF byQa = <<>>
                         THEN FindAll(soup, skills_container,
                                      ByClass("bloko-tag__section_text"))
                         ELSE byQa
                 texts == ExtractTexts(soup, tags)
             IN  Put(data, "skills", SelectSeqIdx(texts,
                     {k \in 1..Len(texts) : ~Contains(Lower(texts[k]), WordLearn)}))

ResumeLanguageItems(data, soup) ==
    LET lang_block == Find(soup, Root, ByQa("resume-block-languages"))
    IN  IF lang_block = NoNode THEN data
        ELSE Put(data, "language_items", ExtractTexts(soup,
                 FindAll(soup, lang_block, ByQa("resume-block-language-item"))))

ResumeCitizenship(data, soup) ==
    LET cit_block == Find(soup, Root, ByQa("resume-block-additional"))
    IN  IF cit_block = NoNode THEN data
        ELSE Put(data, "citizenship",
                 ExtractTexts(soup, FindAll(soup, cit_block, ByName("p"))))

\* section 1 giving up at the first marker it does not find
ResumeHeaderShortCircuit(data, soup) ==
    LET d1 == Put(data, "name", MarkerText(soup, "bloko-header-1"))
        d2 == Put(d1, "title", MarkerText(soup, "resume-block-title-position"))
        d3 == Put(d2, "salary", MarkerText(soup, "resume-block-salary"))
        d4 == Put(d3, "gender", MarkerText(soup, "resume-personal-gender"))
        d5 == Put(d4, "age", MarkerText(soup, "resume-personal-age"))
        d6 == PutIfFound(d5, "birth_date", soup,
                         Find(soup, Root, ByQa("resume-personal-birthday")))
        d7 == Put(d6, "area", MarkerText(soup, "resume-personal-address"))
        d8 == PutIfFound(d7, "metro", soup, MetroEl(soup))
        relocation_parts == RelocationParts(soup)
    IN  IF Find(soup, Root, ByQa("bloko-header-1")) = NoNode THEN data
        ELSE IF relocation_parts # <<>>
        THEN Put(d8, "relocation", Join(CommaSpace, relocation_parts))
        ELSE d8

\* section 1: the header and the personal data
ResumeHeader(data, soup) ==
    LET d1 == Put(data, "name", MarkerText(soup, "bloko-header-1"))
        d2 == Put(d1, "title", MarkerText(soup, "resume-block-title-position"))
        d3 == Put(d2, "salary", MarkerText(soup, "resume-block-salary"))
        d4 == Put(d3, "gender", MarkerText(soup, "resume-personal-gender"))
        d5 == Put(d4, "age", MarkerText(soup, "resume-personal-age"))
        d6 == PutIfFound(d5, "birth_date", soup,
                         Find(soup, Root, ByQa("resume-personal-birthday")))
        d7 == Put(d6, "area", MarkerText(soup, "resume-personal-address"))
        d8 == PutIfFound(d7, "metro", soup, MetroEl(soup))
        relocation_parts == RelocationParts(soup)
    IN  IF relocation_parts # <<>>
        THEN Put(d8, "relocation", Join(CommaSpace, relocation_parts))
        ELSE d8

\* sections 3 and 4: data[key].append(item) for every item found
ResumeItems(data, soup) ==
    LET d1 == Put(data, "experience_total", ExtractText(soup,
                  Find(soup, Root, ByClass("resume-block__title-text_sub"))))
        d2 == Put(d1, "experience_items",
                  d1["experience_items"] \o ResumeExperienceItems(soup))
    IN  Put(d2, "education_items", d2["education_items"] \o ResumeEducationItems(soup))

\* sections 7 and 8
ResumeFreeText(data, soup) ==
    PutIfFound(
        PutIfFound(data, "driver_experience", soup,
                   Find(soup, Root, ByQa("resume-block-driver-experience"))),
        "about", soup, Find(soup, Root, ByQa("resume-block-skills-content")))

ParseResume(soup) ==
    ResumeCitizenship(
        ResumeFreeText(
            ResumeLanguageItems(
                ResumeSkills(
                    ResumeItems(
                        ResumeSpecialization(
                            ResumeHeader(ResumeDefaults, soup), soup),
                        soup),
                    soup),
                soup),
            soup),
        soup)

(***************************************************************************)
(* HHParser._parse_vacancy                                                 *)
(***************************************************************************)

WordEmployment == <<1079, 1072, 1085, 1103, 1090, 1086, 1089, 1090, 1100>>
    \* "занятость"
WordSchedule == <<1075, 1088, 1072, 1092, 1080, 1082>>
    \* "график"
WordFormat == <<1092, 1086, 1088, 1084, 1072, 1090>>
    \* "формат"
WordHours == <<1095, 1072, 1089, 1099>>
    \* "часы"
WordWorking == <<1088, 1072, 1073, 1086, 1095, 1080, 1077>>
    \* "рабочие"
PrefixExperience == <<1054, 1087, 1099, 1090, 32, 1088, 1072, 1073, 1086, 1090, 1099, 58>>
    \* "Опыт работы:"
WordKeySkills == <<1082, 1083, 1102, 1095, 1077, 1074, 1099, 1077, 32, 1085, 1072, 1074, 1099, 1082, 1080>>
    \* "ключевые навыки"
WordWorkAtCompany == <<1088, 1072, 1073, 1086, 1090, 1072, 32, 1074, 32, 1082, 1086, 1084, 1087, 1072, 1085, 1080, 1080>>
    \* "работа в компании"
Underscore == 95
Newline == 10

\* the keywords that select the scope around the experience marker
ScopeKeywords == {WordEmployment, WordSchedule, WordFormat, WordHours}

\* the keywords that admit a fragment into the schedule list
FragmentKeywords == ScopeKeywords \cup {WordWorking}

AnyKeyword(text, keywords) == \E k \in keywords : Contains(Lower(text), k)

VacancyKeys ==
    {"type", "title", "salary", "experience", "schedule", "description",
     "skills", "company", "address"}

VacancyDefaults ==
    [type |-> "vacancy", title |-> <<>>, salary |-> <<>>, experience |-> <<>>,
     schedule |-> <<>>, description |-> <<>>, skills |-> <<>>, company |-> <<>>,
     address |-> <<>>]

\* str.replace(old, ""): every occurrence, left to right, removed
RECURSIVE Remove(_, _)
Remove(s, old) ==
    LET at == {i \in 1..(Len(s) - Len(old) + 1) : SubSeq(s, i, i + Len(old) - 1) = old}
    IN  IF at = {} THEN s
        ELSE SubSeq(s, 1, Min(at) - 1)
             \o Remove(SubSeq(s, Min(at) + Len(old), Len(s)), old)

\* tag.find_all(['p', 'div']), as a set
ParagraphsBelow(soup, i) ==
    {j \in Descendants(soup, i) : soup[j].name \in {"p", "div"}}

\* a walk that goes on after a level with a keyword and several p/div
RECURSIVE ScopeWalkNoStop(_, _, _, _)
ScopeWalkNoStop(soup, current, container, levels) ==
    IF levels = 0 \/ current = Root THEN container
    ELSE LET parent == soup[current].parent
             hit == AnyKeyword(ExtractText(soup, parent), ScopeKeywords)
         IN  ScopeWalkNoStop(soup, parent, IF hit THEN parent ELSE container,
                             levels - 1)

\* The walk of at most three levels up from the experience marker: current is
\* the node whose parent is looked at, container the scope chosen so far.
RECURSIVE ScopeWalk(_, _, _, _)
ScopeWalk(soup, current, container, levels) ==
    IF levels = 0 \/ current = Root THEN container
    ELSE LET parent == soup[current].parent
             hit == AnyKeyword(ExtractText(soup, parent), ScopeKeywords)
         IN  IF hit /\ Cardinality(ParagraphsBelow(soup, parent)) > 1 THEN parent
             ELSE ScopeWalk(soup, parent, IF hit THEN parent ELSE container,
                            levels - 1)

ScopeLevels == 3
MaxFragmentLen == 100

\* a loop that takes a fragment of any length
RECURSIVE ScheduleLoopAnyLength(_, _, _)
ScheduleLoopAnyLength(soup, tags, seen_texts) ==
    IF tags = <<>> THEN <<>>
    ELSE LET tag == Head(tags)
             text == ExtractText(soup, tag)
             clean_text == Strip(Remove(text, PrefixExperience))
         IN  IF /\ soup[tag].name \in {"span", "p", "div"}
                /\ ParagraphsBelow(soup, tag) = {}
                /\ text # <<>>
                /\ clean_text # <<>>
                /\ clean_text \notin seen_texts
                /\ AnyKeyword(text, FragmentKeywords)
             THEN <<clean_text>>
                  \o ScheduleLoopAnyLength(soup, Tail(tags), seen_texts \cup {clean_text, text})
             ELSE ScheduleLoopAnyLength(soup, Tail(tags), seen_texts)

\* a loop that does not remember what it has taken
RECURSIVE ScheduleLoopForgetful(_, _, _)
ScheduleLoopForgetful(soup, tags, seen_texts) ==
    IF tags = <<>> THEN <<>>
    ELSE LET tag == Head(tags)
             text == ExtractText(soup, tag)
             clean_text == Strip(Remove(text, PrefixExperience))
         IN  IF /\ soup[tag].name \in {"span", "p", "div"}
                /\ ParagraphsBelow(soup, tag) = {}
                /\ text # <<>>
                /\ Len(text) <= MaxFragmentLen
                /\ clean_text # <<>>
                /\ clean_text \notin seen_texts
                /\ AnyKeyword(text, FragmentKeywords)
             THEN <<clean_text>> \o ScheduleLoopForgetful(soup, Tail(tags), seen_texts)
             ELSE ScheduleLoopForgetful(soup, Tail(tags), seen_texts)

\* the loop over container.descendants: the leaf-like span/p/div fragments
RECURSIVE ScheduleLoop(_, _, _)
ScheduleLoop(soup, tags, seen_texts) ==
    IF tags = <<>> THEN <<>>
    ELSE LET tag == Head(tags)
             text == ExtractText(soup, tag)
             clean_text == Strip(Remove(text, PrefixExperience))
         IN  IF /\ soup[tag].name \in {"span", "p", "div"}
                /\ ParagraphsBelow(soup, tag) = {}
                /\ text # <<>>
                /\ Len(text) <= MaxFragmentLen
                /\ clean_text # <<>>
                /\ clean_text \notin seen_texts
                /\ AnyKeyword(text, FragmentKeywords)
             THEN <<clean_text>>
                  \o ScheduleLoop(soup, Tail(tags), seen_texts \cup {clean_text, text})
             ELSE ScheduleLoop(soup, Tail(tags), seen_texts)

\* section 2: experience and the schedule fragments around it
VacancyConditions(data, soup) ==
    LET exp_node == Find(soup, Root, ByQa("vacancy-experience"))
        experience == ExtractText(soup, exp_node)
        container == ScopeWalk(soup, exp_node, NoNode, ScopeLevels)
        d1 == Put(data, "experience", experience)
    IN  IF exp_node = NoNode THEN data
        ELSE IF container = NoNode THEN d1
        ELSE Put(d1, "schedule",
                 d1["schedule"] \o ScheduleLoop(soup,
                     InOrder(Descendants(soup, container)), {experience}))

\* section 4: attempted only below a "key skills" heading
VacancySkills(data, soup) ==
    LET skills_elements == FindAll(soup, Root, ByQa("skills-element"))
    IN  IF FindHeading(soup, WordKeySkills) = NoNode THEN data
        ELSE IF skills_elements # <<>>
             THEN Put(data, "skills", ExtractTexts(soup, skills_elements))
        ELSE Put(data, "skills",
                 ExtractTexts(soup, FindAll(soup, Root, ByQa("bloko-tag__text"))))

\* str.strip('_')
RECURSIVE StripUnderscore(_)
StripUnderscore(s) ==
    IF s # <<>> /\ Head(s) = Underscore THEN StripUnderscore(Tail(s))
    ELSE IF s # <<>> /\ s[Len(s)] = Underscore
         THEN StripUnderscore(SubSeq(s, 1, Len(s) - 1))
    ELSE s

\* The group of  re.search(r"работа в компании\s+(.+?),", t, re.IGNORECASE):
\* [found, group].  The phrase at offset i, then ws >= 1 white characters, then
\* the shortest non-empty run without a newline that a comma follows; the
\* leftmost i wins, then the longest ws.
CompanyMatch(t) ==
    LET n == Len(t)
        m == Len(WordWorkAtCompany)
        Phrase(i) == i + m <= n /\ Lower(SubSeq(t, i + 1, i + m)) = WordWorkAtCompany
        White(i, ws) == \A k \in 1..ws : i + m + k <= n /\ IsSpace(t[i + m + k])
        \* the group is t[g..e], the comma is t[e + 1]
        Group(g, e) == /\ e >= g /\ e + 1 <= n /\ t[e + 1] = Comma
                       /\ \A k \in g..e : t[k] # Newline
        Ends(g) == {e \in g..n : Group(g, e)}
        Starts(i) == {ws \in 1..n : White(i, ws) /\ Ends(i + m + ws + 1) # {}}
        Offsets == {i \in 0..n : Phrase(i) /\ Starts(i) # {}}
    IN  IF Offsets = {} THEN [found |-> FALSE, group |-> <<>>]
        ELSE LET i == Min(Offsets)
                 ws == CHOOSE w \in Starts(i) : \A v \in Starts(i) : v <= w
                 g == i + m + ws + 1
             IN  [found |-> TRUE, group |-> SubSeq(t, g, Min(Ends(g)))]

\* section 5: the company marker, else what the <title> text yields
VacancyCompany(data, soup) ==
    LET comp == MarkerText(soup, "vacancy-company-name")
        title_tag == Find(soup, Root, ByName("title"))
        t_text == GetTextRaw(soup, title_tag)
        match == CompanyMatch(t_text)
        parts == Split(t_text, Comma)
    IN  IF comp # <<>> THEN Put(data, "company", comp)
        ELSE IF title_tag = NoNode THEN data
        ELSE IF match.found
             THEN Put(data, "company", Strip(StripUnderscore(match.group)))
        ELSE IF Len(parts) > 1 THEN Put(data, "company", Strip(parts[2]))
        ELSE data

\* sections 1, 3 and 6: the marker lookups with their fallbacks
VacancyTitle(data, soup) ==
    LET title == MarkerText(soup, "vacancy-title")
    IN  Put(data, "title", IF title = <<>> THEN MarkerText(soup, "title") ELSE title)

VacancyAddress(data, soup) ==
    LET address == MarkerText(soup, "vacancy-view-location")
    IN  Put(data, "address",
            IF address = <<>>
            THEN ExtractText(soup,
                     Find(soup, Root, ByClass("vacancy-creation-time-redesigned")))
            ELSE address)

ParseVacancy(soup) ==
    VacancyAddress(
        VacancyCompany(
            VacancySkills(
                PutIfFound(
                    VacancyConditions(
                        Put(VacancyTitle(VacancyDefaults, soup), "salary",
                            MarkerText(soup, "vacancy-salary")),
                        soup),
                    "description", soup,
                    Find(soup, Root, ByQa("vacancy-description"))),
                soup),
            soup),
        soup)

(***************************************************************************)
(* MIME messages (the email package).  A message has a content type, the   *)
(* sub-messages of a multipart one (parts) and, for a leaf, the bytes that *)
(* get_payload(decode=True) yields; for a multipart message that call      *)
(* yields None.  A payload is markup and is kept as its tree, the strings  *)
(* of the tree being the undecoded bytes (tags are ASCII in every          *)
(* candidate encoding); the empty payload b"" is the empty tree, and so is *)
(* None, of which the code tests nothing but its truth.                    *)
(***************************************************************************)

Leaf(ctype, charset, payload) ==
    [ctype |-> ctype, charset |-> charset, multipart |-> FALSE,
     payload |-> payload, parts |-> <<>>]

Multipart(ctype, parts) ==
    [ctype |-> ctype, charset |-> Null, multipart |-> TRUE,
     payload |-> <<>>, parts |-> parts]

\* msg.walk(): the message itself, then its parts depth-first in part order
RECURSIVE Walk(_)
RECURSIVE WalkAll(_)
Walk(msg) == <<msg>> \o WalkAll(msg.parts)
WalkAll(parts) ==
    IF parts = <<>> THEN <<>> ELSE Walk(Head(parts)) \o WalkAll(Tail(parts))

\* Python truth of a payload: neither None nor b"" (both kept as <<>>)
Truthy(payload) == payload # <<>>

\* whether payload.decode('utf-8') succeeds
TreeUtf8Valid(p) ==
    \A i \in 1..Len(p) :
        Utf8Valid(p[i].str) /\ (\A k \in DOMAIN p[i].href : Utf8Valid(p[i].href[k]))

\* the byte strings of a payload
Strings(p) == {p[i].str : i \in 1..Len(p)}
                  \cup {p[i].href[1] : i \in {j \in 1..Len(p) : p[j].href # <<>>}}

\* payload.decode('utf-8', errors=...)
TreeUtf8DecodeWith(p, onError) ==
    [i \in 1..Len(p) |->
        [p[i] EXCEPT !.str = Utf8DecodeWith(@, onError),
                     !.href = [k \in DOMAIN @ |-> Utf8DecodeWith(@[k], onError)]]]

\* payload.decode of a single-byte code page
TreeCp1251Decode(p) ==
    [i \in 1..Len(p) |->
        [p[i] EXCEPT !.str = Cp1251Decode(@),
                     !.href = [k \in DOMAIN @ |-> Cp1251Decode(@[k])]]]

(***************************************************************************)
(* HHParser._extract_html_from_mhtml and HHParser.parse                    *)
(*                                                                         *)
(* The content string is known by: whether it contains "MIME-Version:",    *)
(* whether it contains "Content-Type:", the message the email package      *)
(* parses it to (msg), and the tree BeautifulSoup builds when the string   *)
(* itself is read as markup (body).                                        *)
(***************************************************************************)

\* try: payload.decode('utf-8')  except UnicodeDecodeError: errors='replace'
HHDecode(payload) ==
    IF TreeUtf8Valid(payload) THEN TreeUtf8DecodeWith(payload, <<>>)
    ELSE TreeUtf8DecodeWith(payload, Replacement)

\* the positions of the text/html parts, with a payload or without
HtmlPartsAnyPayload(parts) ==
    {i \in 1..Len(parts) : parts[i].ctype = "text/html"}

\* the positions, in walk order, of the text/html parts that have a payload
HtmlParts(parts) ==
    {i \in 1..Len(parts) : parts[i].ctype = "text/html" /\ Truthy(parts[i].payload)}

\* an unpacking that hands on nothing when it finds no payload
ExtractHtmlOrNothing(content) ==
    IF ~content.mime_version /\ ~content.content_type THEN content.body
    ELSE LET parts == Walk(content.msg)
         IN  IF HtmlParts(parts) # {} THEN HHDecode(parts[Min(HtmlParts(parts))].payload)
             ELSE <<>>

ExtractHtmlFromMhtml(content) ==
    IF ~content.mime_version /\ ~content.content_type THEN content.body
    ELSE LET msg == content.msg
             parts == Walk(msg)
         IN  IF HtmlParts(parts) # {} THEN HHDecode(parts[Min(HtmlParts(parts))].payload)
             ELSE IF msg.ctype = "text/html" /\ Truthy(msg.payload)
                  THEN HHDecode(msg.payload)
             ELSE content.body

\* the lower-cased text of the first <title>, "" when there is none
TitleText(soup) ==
    LET title_tag == Find(soup, Root, ByName("title"))
    IN  IF title_tag = NoNode THEN <<>> ELSE Lower(GetTextRaw(soup, title_tag))

\* a classification by the page title alone
IsVacancyByTitleOnly(soup) == Contains(TitleText(soup), WordVacancy)

\* the condition of HHParser.parse under which the document is a vacancy
IsVacancy(soup) ==
    \/ Contains(TitleText(soup), WordVacancy)
    \/ Find(soup, Root, ByQa("vacancy-title")) # NoNode
    \/ Find(soup, Root, ByQa("title")) # NoNode

(***************************************************************************)
(* The documents the parsers are run on: pieces of markup as the source    *)
(* site renders them, and the pages made of a few of them.                 *)
(***************************************************************************)

T(str, parent) == Txt(str, parent)

FragName ==        \* <h2 data-qa="bloko-header-1">Ann</h2>
    <<El("h2", "bloko-header-1", {}, 0), T(<<65, 110, 110>>, 1)>>
FragTitle ==       \* <span data-qa="resume-block-title-position">Engineer</span>
    <<El("span", "resume-block-title-position", {}, 0), T(<<69, 110, 103, 105, 110, 101, 101, 114>>, 1)>>
FragSalary ==      \* <span data-qa="resume-block-salary"> 100 </span>
    <<El("span", "resume-block-salary", {}, 0), T(<<32, 49, 48, 48, 32>>, 1)>>
FragPersonal ==    \* <p><span gender>F</span>, <span age>30</span>, <span birthday>1990</span></p>
    <<El("p", "", {}, 0),
      El("span", "resume-personal-gender", {}, 1), T(<<70>>, 2), T(<<44, 32>>, 1),
      El("span", "resume-personal-age", {}, 1), T(<<51, 48>>, 5), T(<<44, 32>>, 1),
      El("span", "resume-personal-birthday", {}, 1), T(<<49, 57, 57, 48>>, 8)>>
FragAddress ==     \* <p><span address>Омск</span>, <span metro>M1</span>, готов к переезду, не готов к командировкам</p>
    <<El("p", "", {}, 0),
      El("span", "resume-personal-address", {}, 1), T(<<1054, 1084, 1089, 1082>>, 2), T(<<44, 32>>, 1),
      El("span", "resume-personal-metro", {}, 1), T(<<77, 49>>, 5),
      T(<<44, 32, 1075, 1086, 1090, 1086, 1074, 32, 1082, 32, 1055, 1077, 1088, 1077, 1077, 1079, 1076, 1091, 44, 32, 1085, 1077, 32, 1075, 1086, 1090, 1086, 1074, 32, 1082, 32, 1082, 1086, 1084, 1072, 1085, 1076, 1080, 1088, 1086, 1074, 1082, 1072, 1084>>, 1)>>
FragMetroClass ==  \* <span class="metro-station">M2</span>
    <<El("span", "", {"metro-station"}, 0), T(<<77, 50>>, 1)>>
FragSpec ==        \* the specialization block
    <<El("div", "", {"resume-block-container"}, 0),
      El("span", "resume-block-specialization-category", {}, 1), T(<<73, 84>>, 2),
      El("li", "resume-block-position-specialization", {}, 1), T(<<68, 101, 118>>, 4),
      El("p", "", {}, 1), T(<<70, 117, 108, 108>>, 6)>>
FragExpTotal ==    \* <span class="resume-block__title-text_sub">5y</span>
    <<El("span", "", {"resume-block__title-text_sub"}, 0), T(<<53, 121>>, 1)>>
FragExperience ==  \* the experience section: one full block, one bare block
    <<El("div", "resume-block-experience", {}, 0),
      El("div", "", {"resume-block-item-gap"}, 1),
      El("div", "", {"bloko-column_l-2"}, 2), T(<<50, 48, 50, 48>>, 3),
      El("div", "", {"bloko-column_l-10"}, 2),
      El("div", "resume-block-experience-employer", {}, 5), T(<<65, 99, 109, 101>>, 6),
      Anchor(<<97, 99, 109, 101, 46, 105, 111>>, 5), T(<<115, 105, 116, 101>>, 8),
      El("div", "resume-block-experience-position", {}, 5), T(<<68, 101, 118>>, 10),
      El("div", "resume-block-experience-description", {}, 5), T(<<68, 105, 100>>, 12),
      El("div", "", {"resume-block-item-gap"}, 1),
      El("div", "", {"bloko-column_l-10"}, 14),
      Anchor(<<104, 116, 116, 112, 115, 58, 47, 47, 104, 104, 46, 114, 117, 47, 101>>, 15), T(<<98, 46, 114, 117>>, 16)>>
FragEducation ==   \* the education section: the same block twice
    <<El("div", "resume-block-education", {}, 0),
      El("div", "", {"resume-block-item-gap"}, 1),
      El("div", "", {"bloko-column_l-2"}, 2), T(<<50, 48, 49, 48>>, 3),
      El("div", "", {"bloko-column_l-10"}, 2),
      El("div", "resume-block-education-name", {}, 5), T(<<77, 83, 85>>, 6),
      El("div", "", {"resume-block-item-gap"}, 1),
      El("div", "", {"bloko-column_l-2"}, 8), T(<<50, 48, 49, 48>>, 9),
      El("div", "", {"bloko-column_l-10"}, 8),
      El("div", "resume-block-education-name", {}, 11), T(<<77, 83, 85>>, 12)>>
FragSkills ==      \* the skills table, one tag being the suggested-skill widget
    <<El("div", "skills-table", {}, 0),
      El("span", "bloko-tag__text", {}, 1), T(<<83, 81, 76>>, 2),
      El("span", "bloko-tag__text", {}, 1), T(<<1053, 1072, 1091, 1095, 1080, 1090, 1100, 1089, 1103, 32, 71, 111>>, 4)>>
FragSkillsHeading ==  \* a resume block with the heading and class-marked tags
    <<El("div", "", {"resume-block"}, 0),
      El("h2", "", {}, 1), T(<<1053, 1072, 1074, 1099, 1082, 1080>>, 2),
      El("span", "", {"bloko-tag__section_text"}, 1), T(<<71, 105, 116>>, 4)>>
FragLanguages ==
    <<El("div", "resume-block-languages", {}, 0),
      El("p", "resume-block-language-item", {}, 1), T(<<69, 78>>, 2)>>
FragDriver ==
    <<El("div", "resume-block-driver-experience", {}, 0), T(<<66>>, 1)>>
FragAbout ==
    <<El("div", "resume-block-skills-content", {}, 0), T(<<72, 105>>, 1)>>
FragCitizenship ==
    <<El("div", "resume-block-additional", {}, 0),
      El("p", "", {}, 1), T(<<82, 85>>, 2)>>
FragTitleTagVacancy ==  \* <title>Вакансия Dev, работа в компании Acme_, Омск</title>
    <<El("title", "", {}, 0), T(<<1042, 1072, 1082, 1072, 1085, 1089, 1080, 1103, 32, 68, 101, 118, 44, 32, 1056, 1072, 1073, 1086, 1090, 1072, 32, 1074, 32, 1082, 1086, 1084, 1087, 1072, 1085, 1080, 1080, 32, 65, 99, 109, 101, 95, 44, 32, 1054, 1084, 1089, 1082>>, 1)>>
FragTitleTagUpper ==    \* <title>ВАКАНСИЯ Dev, Zeta</title>
    <<El("title", "", {}, 0), T(<<1042, 1040, 1050, 1040, 1053, 1057, 1048, 1071, 32, 68, 101, 118, 44, 32, 90, 101, 116, 97>>, 1)>>
FragTitleTagResume ==   \* <title>Резюме</title>
    <<El("title", "", {}, 0), T(<<1056, 1077, 1079, 1102, 1084, 1077>>, 1)>>
FragVacancyTitle ==
    <<El("h1", "vacancy-title", {}, 0), T(<<68, 101, 118>>, 1)>>
FragGenericTitle ==
    <<El("h1", "title", {}, 0), T(<<79, 112, 115>>, 1)>>
FragVacancySalary ==
    <<El("span", "vacancy-salary", {}, 0), T(<<50, 48, 48>>, 1)>>
FragConditions ==  \* the experience marker and the schedule fragments beside it
    <<El("div", "", {}, 0),
      El("p", "", {}, 1), T(<<1054, 1087, 1099, 1090, 32, 1088, 1072, 1073, 1086, 1090, 1099, 58>>, 2),
      El("span", "vacancy-experience", {}, 2), T(<<49, 45, 51>>, 4),
      El("p", "", {}, 1), T(<<1055, 1086, 1083, 1085, 1072, 1103, 32, 1079, 1072, 1085, 1103, 1090, 1086, 1089, 1090, 1100>>, 6),
      El("p", "", {}, 1), T(<<1043, 1088, 1072, 1092, 1080, 1082, 58, 32, 53, 47, 50>>, 8),
      El("p", "", {}, 1), T(<<1055, 1086, 1083, 1085, 1072, 1103, 32, 1079, 1072, 1085, 1103, 1090, 1086, 1089, 1090, 1100>>, 10)>>
FragDescription ==
    <<El("div", "vacancy-description", {}, 0), T(<<87, 111, 114, 107>>, 1)>>
FragKeySkills ==
    <<El("h2", "", {}, 0), T(<<1050, 1083, 1102, 1095, 1077, 1074, 1099, 1077, 32, 1085, 1072, 1074, 1099, 1082, 1080>>, 1),
      El("li", "skills-element", {}, 0), T(<<71, 111>>, 3)>>
FragCompany ==
    <<El("span", "vacancy-company-name", {}, 0), T(<<65, 99, 109, 101>>, 1)>>
FragLocation ==
    <<El("span", "vacancy-view-location", {}, 0), T(<<1054, 1084, 1089, 1082>>, 1)>>
FragCreationTime ==
    <<El("p", "", {"vacancy-creation-time-redesigned"}, 0), T(<<1055, 1077, 1088, 1084, 1100>>, 1)>>

Fragments ==
    <<FragName, FragTitle, FragSalary, FragPersonal, FragAddress, FragMetroClass,
      FragSpec, FragExpTotal, FragExperience, FragEducation, FragSkills,
      FragSkillsHeading, FragLanguages, FragDriver, FragAbout, FragCitizenship,
      FragTitleTagVacancy, FragTitleTagUpper, FragTitleTagResume,
      FragVacancyTitle, FragGenericTitle, FragVacancySalary, FragConditions,
      FragDescription, FragKeySkills, FragCompany, FragLocation,
      FragCreationTime>>

\* how many pieces a page is made of at most
MaxFrags == 2

\* the page made of the pieces picked, in the order of Fragments
Page(picked) ==
    AttachAll(<<>>, [k \in 1..Len(picked) |-> Fragments[picked[k]]], Root)

\* the subsets of S of at most k elements
RECURSIVE UpTo(_, _)
UpTo(S, k) ==
    IF k = 0 THEN {{}}
    ELSE LET smaller == UpTo(S, k - 1)
         IN  smaller \cup {A \cup {x} : A \in smaller, x \in S}

Pages == {Page(InOrder(S)) : S \in UpTo(1..Len(Fragments), MaxFrags)}

\* payloads: markup whose strings are bytes
PayEmpty == <<>>                     \* b""
PayEngineer == FragTitle             \* ASCII: the bytes are the code points
PayVacancy == FragVacancyTitle
FragTitleCyr ==    \* <span data-qa="resume-block-title-position">Пр</span>
    <<El("span", "resume-block-title-position", {}, 0), T(<<1055, 1088>>, 1)>>

\* the bytes of markup in an encoding: tags are ASCII, the strings are encoded
EncodeTree(t, Enc(_)) ==
    [i \in 1..Len(t) |->
        [t[i] EXCEPT !.str = Enc(@), !.href = [k \in DOMAIN @ |-> Enc(@[k])]]]

PayCp1251 == EncodeTree(FragTitleCyr, Cp1251Encode)   \* not valid UTF-8
PayUtf8 == EncodeTree(FragTitleCyr, Utf8Encode)
PayBad ==          \* "A", then the byte 0x98: neither UTF-8 nor windows-1251
    <<El("span", "resume-block-title-position", {}, 0), T(<<65, 152>>, 1)>>
PayBadOnly == <<T(<<152>>, 0)>>   \* the byte 0x98 alone
FragTitleA ==      \* PayBad read as UTF-8 with the invalid byte dropped
    <<El("span", "resume-block-title-position", {}, 0), T(<<65>>, 1)>>

HHPayloads == {PayEmpty, PayEngineer, PayVacancy, PayCp1251}

\* how many parts a multipart message has at most
MaxParts == 2

\* the sequences over S of length 1..n
RECURSIVE SeqsUpTo(_, _)
SeqsUpTo(S, n) ==
    IF n = 0 THEN {}
    ELSE {<<x>> : x \in S}
         \cup {<<x>> \o q : x \in S, q \in SeqsUpTo(S, n - 1)}

HHLeaves ==
    {Leaf(ct, Null, p) : ct \in {"text/html", "text/css"}, p \in HHPayloads}
    \cup {Leaf("text/html", "utf-8", PayCp1251)}   \* a header that names the wrong charset

HHHtmlLeaves == {l \in HHLeaves : l.ctype = "text/html"}

\* a part is a leaf or a nested multipart holding one html leaf
HHParts ==
    HHLeaves \cup {Multipart("multipart/alternative", <<l>>) :
                      l \in {m \in HHHtmlLeaves : m.payload \in {PayEmpty, PayVacancy}}}

HHMessages ==
    HHLeaves \cup {Multipart("multipart/related", ps) : ps \in SeqsUpTo(HHParts, MaxParts)}

\* what the MIME text itself reads as when taken for markup
BodyOpaque == <<T(<<67, 111, 110, 116, 101, 110, 116, 45, 84, 121, 112, 101, 58, 32, 120>>, 0)>>
BodyVisible == Attach(BodyOpaque, FragSalary, Root)

\* "MIME-Version: 1.0", a text with the one marker and no header the email
\* package reads a content type from
BodyVersionOnly ==
    <<T(<<77, 73, 77, 69, 45, 86, 101, 114, 115, 105, 111, 110, 58, 32, 49, 46, 48>>, 0)>>

NoMessage == Leaf("text/plain", Null, PayEmpty)

HHContents ==
    {[mime_version |-> FALSE, content_type |-> FALSE, msg |-> NoMessage, body |-> d] :
        d \in Pages}
    \cup {[mime_version |-> mv, content_type |-> TRUE, msg |-> m, body |-> b] :
        mv \in BOOLEAN, m \in HHMessages, b \in {BodyOpaque, BodyVisible}}
    \cup {[mime_version |-> TRUE, content_type |-> FALSE, msg |-> NoMessage, body |-> b] :
        b \in {BodyVersionOnly, Attach(BodyVersionOnly, FragTitle, Root)}}

(***************************************************************************)
(* HHParser.parse as a state machine                                       *)
(***************************************************************************)
VARIABLES
    content,        \* the argument of HHParser.parse
    hh_pc,          \* where parse stands: start, extracted, vacancy, resume, returned
    html_content,   \* what _extract_html_from_mhtml returned (the soup built of it)
    result          \* what parse returned

hhVars == <<content, hh_pc, html_content, result>>

HHInit ==
    /\ content \in HHContents
    /\ hh_pc = "start"
    /\ html_content = <<>>
    /\ result = Absent

\* html_content = self._extract_html_from_mhtml(content)
HHExtract ==
    /\ hh_pc = "start"
    /\ html_content' = ExtractHtmlFromMhtml(content)
    /\ hh_pc' = "extracted"
    /\ UNCHANGED <<content, result>>

\* the heuristic that picks the extractor
HHClassify ==
    /\ hh_pc = "extracted"
    /\ hh_pc' = IF IsVacancy(html_content) THEN "vacancy" ELSE "resume"
    /\ UNCHANGED <<content, html_content, result>>

HHParseVacancy ==
    /\ hh_pc = "vacancy"
    /\ result' = ParseVacancy(html_content)
    /\ hh_pc' = "returned"
    /\ UNCHANGED <<content, html_content>>

HHParseResume ==
    /\ hh_pc = "resume"
    /\ result' = ParseResume(html_content)
    /\ hh_pc' = "returned"
    /\ UNCHANGED <<content, html_content>>

HHNext == HHExtract \/ HHClassify \/ HHParseVacancy \/ HHParseResume

(***************************************************************************)
(* MHTMLParser._clean_soup                                                 *)
(*                                                                         *)
(* Cleaning changes the tree in place, so here the soup is the object      *)
(* graph itself: node[i] holds what node i carries, parent[i] its parent   *)
(* (NoNode once it is detached) and contents[i] the list of its children   *)
(* (contents[0] that of the BeautifulSoup object).                         *)
(***************************************************************************)

RemovedTags ==
    {"script", "style", "meta", "noscript", "iframe", "svg", "path", "defs",
     "symbol", "link", "object", "embed"}

Landmarks == {"nav", "footer", "aside"}

\* self.garbage_selectors: the class selectors and the one attribute selector
GarbageClasses ==
    {"bloko-button", "resume-sidebar", "vacancy-sidebar", "supernova-overlay",
     "header", "footer", "bloko-modal", "cookie-warning", "navi", "top-menu",
     "vacancy-address-map", "vacancy-contacts__map", "recommended-vacancies",
     "similar-vacancies"}

GarbageQa == {"vacancy-response-section"}

\* whether an element matches ", ".join(self.garbage_selectors)
IsGarbage(n) == n.cls \cap GarbageClasses # {} \/ n.qa \in GarbageQa

\* what is left of a node that decompose() destroyed
Destroyed ==
    [name |-> Null, qa |-> "", cls |-> {}, href |-> <<>>, str |-> <<>>]

\* the object graph BeautifulSoup builds for a tree
SoupOf(t) ==
    [node |-> [i \in 1..Len(t) |->
                  [name |-> t[i].name, qa |-> t[i].qa, cls |-> t[i].cls,
                   href |-> t[i].href, str |-> t[i].str]],
     parent |-> [i \in 1..Len(t) |-> t[i].parent],
     contents |-> [i \in 0..Len(t) |-> InOrder({j \in 1..Len(t) : t[j].parent = i})]]

\* tag.descendants: the nodes below i, in document order
RECURSIVE Below(_, _)
RECURSIVE BelowAll(_, _)
Below(soup, i) == BelowAll(soup, soup.contents[i])
BelowAll(soup, children) ==
    IF children = <<>> THEN <<>>
    ELSE <<Head(children)>> \o Below(soup, Head(children))
         \o BelowAll(soup, Tail(children))

Range(q) == {q[k] : k \in 1..Len(q)}

\* the nodes still in the tree
Nodes(soup) == Range(Below(soup, Root))

\* soup(names): the tags of the tree with one of the names, in document order
FindAllNamed(soup, names) ==
    SelectSeq(Below(soup, Root), LAMBDA i : soup.node[i].name \in names)

\* soup.select(full_selector): the elements matching a selector, in document order
SelectGarbage(soup) ==
    SelectSeq(Below(soup, Root),
              LAMBDA i : soup.node[i].name # "#text" /\ IsGarbage(soup.node[i]))

\* a removal that takes the text following the tag along with it
DecomposeWithTail(soup, tag) ==
    LET p == soup.parent[tag]
        sibs == IF p = NoNode THEN <<>> ELSE soup.contents[p]
        at == IF p = NoNode THEN 0 ELSE CHOOSE k \in 1..Len(sibs) : sibs[k] = tag
        tail == IF at > 0 /\ at < Len(sibs) /\ soup.node[sibs[at + 1]].name = "#text"
                THEN {sibs[at + 1]} ELSE {}
        gone == {tag} \cup Range(Below(soup, tag)) \cup tail
    IN  [node |-> [i \in DOMAIN soup.node |->
                      IF i \in gone THEN Destroyed ELSE soup.node[i]],
         parent |-> [i \in DOMAIN soup.parent |->
                      IF i \in gone THEN NoNode ELSE soup.parent[i]],
         contents |-> [i \in DOMAIN soup.contents |->
                      IF i \in gone THEN <<>>
                      ELSE IF i = p THEN SelectSeq(soup.contents[i], LAMBDA c : c \notin gone)
                      ELSE soup.contents[i]]]

\* tag.decompose(): the tag leaves its parent's contents, then the tag and
\* everything below it are destroyed.  On a tag already destroyed nothing is
\* left to do.
Decompose(soup, tag) ==
    LET gone == {tag} \cup Range(Below(soup, tag))
        p == soup.parent[tag]
    IN  [node |-> [i \in DOMAIN soup.node |->
                      IF i \in gone THEN Destroyed ELSE soup.node[i]],
         parent |-> [i \in DOMAIN soup.parent |->
                      IF i \in gone THEN NoNode ELSE soup.parent[i]],
         contents |-> [i \in DOMAIN soup.contents |->
                      IF i \in gone THEN <<>>
                      ELSE IF i = p THEN SelectSeq(soup.contents[i], LAMBDA c : c # tag)
                      ELSE soup.contents[i]]]

\* a loop that stops after the first tag
DecomposeFirstOnly(soup, tags) ==
    IF tags = <<>> THEN soup ELSE Decompose(soup, Head(tags))

\* for tag in tags: tag.decompose()
RECURSIVE DecomposeEach(_, _)
DecomposeEach(soup, tags) ==
    IF tags = <<>> THEN soup
    ELSE DecomposeEach(Decompose(soup, Head(tags)), Tail(tags))

\* for tag in tags: if tag.parent: tag.decompose()
RECURSIVE DecomposeAttached(_, _)
DecomposeAttached(soup, tags) ==
    IF tags = <<>> THEN soup
    ELSE DecomposeAttached(
             IF soup.parent[Head(tags)] # NoNode THEN Decompose(soup, Head(tags))
             ELSE soup,
             Tail(tags))

\* the three passes; each list is taken before its loop starts
CleanTags(soup) == DecomposeEach(soup, FindAllNamed(soup, RemovedTags))
CleanLandmarks(soup) == DecomposeAttached(soup, FindAllNamed(soup, Landmarks))
CleanGarbage(soup) == DecomposeAttached(soup, SelectGarbage(soup))

CleanSoup(soup) == CleanGarbage(CleanLandmarks(CleanTags(soup)))

(***************************************************************************)
(* _clean_soup as a state machine: a tree is parsed, then cleaned, and     *)
(* cleaned again.                                                          *)
(***************************************************************************)

\* the kinds of node a tree under cleaning is made of
CleanKinds ==
    {El("div", "", {"resume-header-title"}, 0),      \* content
     El("svg", "", {}, 0),                           \* a removed tag kind
     El("nav", "", {}, 0),                           \* a landmark
     El("div", "", {"bloko-button"}, 0),             \* boilerplate, by class
     El("div", "vacancy-response-section", {}, 0),   \* boilerplate, by attribute
     Txt(<<120>>, 0)}                                \* the text "x"

\* how many nodes a tree under cleaning has at most
MaxNodes == 3

\* the node itself and its ancestors, up to the root
RECURSIVE PathToRoot(_, _)
PathToRoot(t, i) == IF i = Root THEN {Root} ELSE {i} \cup PathToRoot(t, t[i].parent)

\* where the next node in document order may hang: below the root, the last
\* node or one of its ancestors, a text node having no children
OpenParents(t) ==
    IF t = <<>> THEN {Root}
    ELSE {i \in PathToRoot(t, Len(t)) : i = Root \/ t[i].name # "#text"}

RECURSIVE TreesOf(_)
TreesOf(n) ==
    IF n = 0 THEN {<<>>}
    ELSE LET smaller == TreesOf(n - 1)
         IN  smaller \cup
             UNION {{Append(t, [k EXCEPT !.parent = p]) : k \in CleanKinds, p \in OpenParents(t)} :
                    t \in {u \in smaller : Len(u) = n - 1}}

VARIABLES
    tree,        \* the markup as parsed
    soup,        \* the object graph _clean_soup works on
    cleanings    \* how many times _clean_soup has run on it

clVars == <<tree, soup, cleanings>>

MaxCleanings == 2

ClInit ==
    /\ tree \in TreesOf(MaxNodes)
    /\ soup = SoupOf(tree)
    /\ cleanings = 0

\* self._clean_soup(soup)
ClClean ==
    /\ cleanings < MaxCleanings
    /\ soup' = CleanSoup(soup)
    /\ cleanings' = cleanings + 1
    /\ UNCHANGED tree

ClNext == ClClean

(***************************************************************************)
(* MHTMLParser._read_and_decode and MHTMLParser.parse                      *)
(***************************************************************************)

\* the exceptions the steps of parse can raise
LibraryErrors == {"RecursionError"}   \* markup too deep for the tree builder or markdownify

\* a loop that goes on only after an unknown encoding name
LoopCatchesLookupOnly(exc) == exc \in {"TypeError", "LookupError"}

\* except (UnicodeDecodeError, TypeError, LookupError): continue
LoopCatches(exc) == exc \in {"UnicodeDecodeError", "TypeError", "LookupError"}
\* except Exception: pass   (around the detected encoding)
DetectCatches(exc) == TRUE
\* except Exception as e: ... return None   (_read_and_decode)
ReadCatches(exc) == TRUE
\* a handler of parse that names the errors of reading and decoding only
ParseCatchesDecodeOnly(exc) == exc \in {"OSError", "UnicodeDecodeError", "LookupError"}

\* except Exception as e: ... return None   (parse)
ParseCatches(exc) == TRUE

\* what bytes.decode(enc) raises on a payload, "none" when it succeeds
DecodeExc(enc, p) ==
    IF enc = "utf-8" THEN (IF TreeUtf8Valid(p) THEN "none" ELSE "UnicodeDecodeError")
    ELSE IF enc = "windows-1251"
         THEN (IF \A b \in Strings(p) : Cp1251Valid(b) THEN "none" ELSE "UnicodeDecodeError")
    ELSE IF enc = "iso-8859-1" THEN "none"
    ELSE "LookupError"

\* what bytes.decode(enc) returns when it succeeds
DecodeText(enc, p) ==
    IF enc = "utf-8" THEN TreeUtf8DecodeWith(p, <<>>)
    ELSE IF enc = "windows-1251" THEN TreeCp1251Decode(p)
    ELSE [i \in 1..Len(p) |->
             [p[i] EXCEPT !.str = Latin1Decode(@),
                          !.href = [k \in DOMAIN @ |-> Latin1Decode(@[k])]]]

\* what chardet.detect may name for a payload
\* (a name, or None; "EUC-TW" is a name Python has no codec for)
Detectable == {Null, "utf-8", "windows-1251", "iso-8859-1", "EUC-TW"}

IsMultipart(msg) == msg.multipart

\* lines 87-101: the payload and the declared charset picked from the message
SelectHtml(msg) ==
    LET parts == Walk(msg)
        hits == HtmlParts(parts)
    IN  IF IsMultipart(msg)
        THEN IF hits # {}
             THEN [payload |-> parts[Min(hits)].payload, charset |-> parts[Min(hits)].charset]
             ELSE [payload |-> <<>>, charset |-> Null]
        ELSE IF msg.ctype = "text/html"
             THEN [payload |-> msg.payload, charset |-> msg.charset]
        ELSE [payload |-> <<>>, charset |-> Null]

\* a candidate list that tries the legacy code page before UTF-8
CandidatesLegacyFirst(charset) ==
    (IF charset # Null THEN <<charset>> ELSE <<>>) \o <<"windows-1251", "utf-8">>

\* candidate_encodings
Candidates(charset) ==
    (IF charset # Null THEN <<charset>> ELSE <<>>) \o <<"utf-8", "windows-1251">>

\* "not html_content" for a decoded text: nothing but empty strings
EmptyText(t) == \A i \in 1..Len(t) : t[i].name = "#text" /\ t[i].str = <<>>

VARIABLES
    file,         \* the archive: whether it can be read, and the message in it
    mh_pc,        \* where MHTMLParser.parse stands
    html_bytes,   \* html_content as bytes
    candidates,   \* the encodings of the loop not yet tried
    attempts,     \* the decodings tried so far, in order
    detected,     \* what chardet named
    html_text,    \* html_content as text
    mh_soup,      \* the cleaned soup
    mh_result     \* what parse returned

mhVars == <<file, mh_pc, html_bytes, candidates, attempts, detected, html_text,
            mh_soup, mh_result>>

MhPayloads == {PayEngineer, PayCp1251, PayUtf8, PayBad, PayBadOnly}

\* the parts of an archive: html without a declared charset, html whose
\* header names a charset that fits, does not fit or does not exist, an
\* empty html part and a style sheet
MhLeaves ==
    {Leaf("text/html", Null, p) : p \in MhPayloads}
    \cup {Leaf("text/html", "utf-8", PayCp1251), Leaf("text/html", "utf-8", PayBad),
          Leaf("text/html", "iso-8859-1", PayCp1251),
          Leaf("text/html", "x-unknown", PayUtf8), Leaf("text/html", "x-unknown", PayBad)}
    \cup {Leaf("text/html", Null, PayEmpty), Leaf("text/css", Null, PayEngineer)}

MhMessages ==
    MhLeaves \cup {Multipart("multipart/related", ps) : ps \in SeqsUpTo(MhLeaves, MaxParts)}

Files ==
    {[readable |-> FALSE, msg |-> NoMessage]}
    \cup {[readable |-> TRUE, msg |-> m] : m \in MhMessages}

MhInit ==
    /\ file \in Files
    /\ mh_pc = "start"
    /\ html_bytes = <<>>
    /\ candidates = <<>>
    /\ attempts = <<>>
    /\ detected = "unset"
    /\ html_text = <<>>
    /\ mh_soup = Absent
    /\ mh_result = Absent

\* parse returns None
MhReturnNone ==
    /\ mh_pc' = "returned"
    /\ mh_result' = Absent

\* an exception raised inside _read_and_decode that its own step does not catch
MhRaiseInRead(exc) ==
    /\ mh_pc' = IF ReadCatches(exc) \/ ParseCatches(exc) THEN "returned" ELSE "escaped"
    /\ mh_result' = Absent

\* an exception raised in parse after _read_and_decode returned
MhRaiseInParse(exc) ==
    /\ mh_pc' = IF ParseCatches(exc) THEN "returned" ELSE "escaped"
    /\ mh_result' = Absent

\* open(file_path, "rb") and email.message_from_binary_file
MhOpen ==
    /\ mh_pc = "start"
    /\ IF file.readable
       THEN mh_pc' = "select" /\ UNCHANGED mh_result
       ELSE MhRaiseInRead("OSError")
    /\ UNCHANGED <<file, html_bytes, candidates, attempts, detected, html_text, mh_soup>>

\* lines 87-108
MhSelect ==
    /\ mh_pc = "select"
    /\ LET sel == SelectHtml(file.msg)
       IN  IF Truthy(sel.payload)
           THEN /\ html_bytes' = sel.payload
                /\ candidates' = Candidates(sel.charset)
                /\ mh_pc' = "try"
                /\ UNCHANGED mh_result
           ELSE /\ MhReturnNone
                /\ UNCHANGED <<html_bytes, candidates>>
    /\ UNCHANGED <<file, attempts, detected, html_text, mh_soup>>

\* one turn of  for enc in candidate_encodings
MhTry ==
    /\ mh_pc = "try"
    /\ LET enc == Head(candidates)
           exc == DecodeExc(enc, html_bytes)
       IN  /\ attempts' = Append(attempts, enc)
           /\ IF exc = "none"
              THEN /\ html_text' = DecodeText(enc, html_bytes)
                   /\ mh_pc' = "decoded"
                   /\ UNCHANGED <<candidates, mh_result>>
              ELSE IF LoopCatches(exc)
              THEN /\ candidates' = Tail(candidates)
                   /\ mh_pc' = IF Tail(candidates) = <<>> THEN "detect" ELSE "try"
                   /\ UNCHANGED <<html_text, mh_result>>
              ELSE /\ MhRaiseInRead(exc)
                   /\ UNCHANGED <<candidates, html_text>>
    /\ UNCHANGED <<file, html_bytes, detected, mh_soup>>

\* chardet.detect and the attempt with what it names
MhDetect ==
    /\ mh_pc = "detect"
    /\ \E encoding \in Detectable :
        /\ detected' = encoding
        /\ IF encoding = Null
           THEN mh_pc' = "last" /\ UNCHANGED <<attempts, html_text, mh_result>>
           ELSE LET exc == DecodeExc(encoding, html_bytes)
                IN  /\ attempts' = Append(attempts, encoding)
                    /\ IF exc = "none"
                       THEN /\ html_text' = DecodeText(encoding, html_bytes)
                            /\ mh_pc' = "decoded"
                            /\ UNCHANGED mh_result
                       ELSE IF DetectCatches(exc)
                       THEN mh_pc' = "last" /\ UNCHANGED <<html_text, mh_result>>
                       ELSE MhRaiseInRead(exc) /\ UNCHANGED html_text
    /\ UNCHANGED <<file, html_bytes, candidates, mh_soup>>

\* html_content.decode("utf-8", errors="ignore")
MhLast ==
    /\ mh_pc = "last"
    /\ attempts' = Append(attempts, "utf-8/ignore")
    /\ html_text' = TreeUtf8DecodeWith(html_bytes, <<>>)
    /\ mh_pc' = "decoded"
    /\ UNCHANGED <<file, html_bytes, candidates, detected, mh_soup, mh_result>>

\* lines 62-67: the empty text is given up, else the soup is built and cleaned
MhSoup ==
    /\ mh_pc = "decoded"
    /\ IF EmptyText(html_text)
       THEN MhReturnNone /\ UNCHANGED mh_soup
       ELSE \/ /\ mh_soup' = CleanSoup(SoupOf(html_text))
               /\ mh_pc' = "render"
               /\ UNCHANGED mh_result
            \/ \E exc \in LibraryErrors : MhRaiseInParse(exc) /\ UNCHANGED mh_soup
    /\ UNCHANGED <<file, html_bytes, candidates, attempts, detected, html_text>>

\* lines 70-75: the flowed text of the cleaned soup, named by the soup it is
\* rendered from and the renderer picked
MhRender ==
    /\ mh_pc = "render"
    /\ \/ /\ mh_result' =
               [kind |-> IF \E i \in Nodes(mh_soup) : mh_soup.node[i].qa = "vacancy-description"
                         THEN "vacancy" ELSE "resume",
                soup |-> mh_soup]
          /\ mh_pc' = "returned"
       \/ \E exc \in LibraryErrors : MhRaiseInParse(exc)
    /\ UNCHANGED <<file, html_bytes, candidates, attempts, detected, html_text, mh_soup>>

MhNext == MhOpen \/ MhSelect \/ MhTry \/ MhDetect \/ MhLast \/ MhSoup \/ MhRender

(***************************************************************************)
(* Sections 3 and 4 of _parse_resume on the experience and education       *)
(* sections of a resume: the blocks ("resume-block-item-gap") a section is *)
(* made of, each with its narrow column (the period) and its wide column.  *)
(***************************************************************************)

ExpFull ==         \* 2020 | employer Acme, <a href="acme.io">site</a>, position Dev, description Did
    <<El("div", "", {"resume-block-item-gap"}, 0),
      El("div", "", {"bloko-column_l-2"}, 1), T(<<50, 48, 50, 48>>, 2),
      El("div", "", {"bloko-column_l-10"}, 1),
      El("div", "resume-block-experience-employer", {}, 4), T(<<65, 99, 109, 101>>, 5),
      Anchor(<<97, 99, 109, 101, 46, 105, 111>>, 4), T(<<115, 105, 116, 101>>, 7),
      El("div", "resume-block-experience-position", {}, 4), T(<<68, 101, 118>>, 9),
      El("div", "resume-block-experience-description", {}, 4), T(<<68, 105, 100>>, 11)>>
ExpNarrowOnly ==   \* 2021 | (no wide column)
    <<El("div", "", {"resume-block-item-gap"}, 0),
      El("div", "", {"bloko-column_l-2"}, 1), T(<<50, 48, 50, 49>>, 2)>>
ExpTwoLinks ==     \* 2022 | <a href="https://hh.ru/e">Beta</a> <a href="https://b.io">b</a>, position Ops
    <<El("div", "", {"resume-block-item-gap"}, 0),
      El("div", "", {"bloko-column_l-2"}, 1), T(<<50, 48, 50, 50>>, 2),
      El("div", "", {"bloko-column_l-10"}, 1),
      Anchor(<<104, 116, 116, 112, 115, 58, 47, 47, 104, 104, 46, 114, 117, 47, 101>>, 4), T(<<66, 101, 116, 97>>, 5),
      Anchor(<<104, 116, 116, 112, 115, 58, 47, 47, 98, 46, 105, 111>>, 4), T(<<98>>, 7),
      El("div", "resume-block-experience-position", {}, 4), T(<<79, 112, 115>>, 9)>>
ExpStubLink ==     \* | <a href="javascript:void(0)">b.ru</a>
    <<El("div", "", {"resume-block-item-gap"}, 0),
      El("div", "", {"bloko-column_l-10"}, 1),
      Anchor(<<106, 97, 118, 97, 115, 99, 114, 105, 112, 116, 58, 118, 111, 105, 100, 40, 48, 41>>, 2), T(<<98, 46, 114, 117>>, 3)>>
ExpPlainText ==    \* 2023 | Did things
    <<El("div", "", {"resume-block-item-gap"}, 0),
      El("div", "", {"bloko-column_l-2"}, 1), T(<<50, 48, 50, 51>>, 2),
      El("div", "", {"bloko-column_l-10"}, 1), T(<<32, 68, 105, 100, 32, 116, 104, 105, 110, 103, 115, 32>>, 4)>>
ExpStrong ==       \* | <b class="bloko-text_strong">Zeta</b> <a>x.y</a> <a href="z.io">z</a> text
    <<El("div", "", {"resume-block-item-gap"}, 0),
      El("div", "", {"bloko-column_l-10"}, 1),
      El("b", "", {"bloko-text_strong"}, 2), T(<<90, 101, 116, 97>>, 3),
      El("a", "", {}, 2), T(<<120, 46, 121>>, 5),
      Anchor(<<122, 46, 105, 111>>, 2), T(<<122>>, 7),
      T(<<116, 101, 120, 116>>, 2)>>
ExpEmptyColumn ==  \* 2024 | (an empty wide column)
    <<El("div", "", {"resume-block-item-gap"}, 0),
      El("div", "", {"bloko-column_l-2"}, 1), T(<<50, 48, 50, 52>>, 2),
      El("div", "", {"bloko-column_l-10"}, 1)>>
ExpPositionOnly == \* | position Lead, industry IT, free text "more"
    <<El("div", "", {"resume-block-item-gap"}, 0),
      El("div", "", {"bloko-column_l-10"}, 1),
      El("div", "resume-block-experience-position", {}, 2), T(<<76, 101, 97, 100>>, 3),
      El("div", "", {"resume-block__experience-industries"}, 2), T(<<73, 84>>, 5),
      T(<<109, 111, 114, 101>>, 2)>>
ExpSiteLink ==     \* | <a href="https://hh.ru/e2">hh.ru/e2</a> <a href="c.io">c</a>, description Ran
    <<El("div", "", {"resume-block-item-gap"}, 0),
      El("div", "", {"bloko-column_l-10"}, 1),
      Anchor(<<104, 116, 116, 112, 115, 58, 47, 47, 104, 104, 46, 114, 117, 47, 101, 50>>, 2), T(<<104, 104, 46, 114, 117, 47, 101, 50>>, 3),
      Anchor(<<99, 46, 105, 111>>, 2), T(<<99>>, 5),
      El("div", "resume-block-experience-description", {}, 2), T(<<82, 97, 110>>, 7)>>

ExpBlocks ==
    {ExpFull, ExpNarrowOnly, ExpTwoLinks, ExpStubLink, ExpPlainText, ExpStrong,
     ExpEmptyColumn, ExpPositionOnly, ExpSiteLink}

EduPlain ==        \* 2010 | name MSU
    <<El("div", "", {"resume-block-item-gap"}, 0),
      El("div", "", {"bloko-column_l-2"}, 1), T(<<50, 48, 49, 48>>, 2),
      El("div", "", {"bloko-column_l-10"}, 1),
      El("div", "resume-block-education-name", {}, 4), T(<<77, 83, 85>>, 5)>>
EduSpaced ==       \* 2010 | name " MSU " (the same triple, other bytes)
    <<El("div", "", {"resume-block-item-gap"}, 0),
      El("div", "", {"bloko-column_l-2"}, 1), T(<<50, 48, 49, 48>>, 2),
      El("div", "", {"bloko-column_l-10"}, 1),
      El("div", "resume-block-education-name", {}, 4), T(<<32, 77, 83, 85, 32>>, 5)>>
EduDetails ==      \* 2010 | name MSU, organization Math
    <<El("div", "", {"resume-block-item-gap"}, 0),
      El("div", "", {"bloko-column_l-2"}, 1), T(<<50, 48, 49, 48>>, 2),
      El("div", "", {"bloko-column_l-10"}, 1),
      El("div", "resume-block-education-name", {}, 4), T(<<77, 83, 85>>, 5),
      El("div", "resume-block-education-organization", {}, 4), T(<<77, 97, 116, 104>>, 7)>>
EduLater ==        \* 2012 | name MSU
    <<El("div", "", {"resume-block-item-gap"}, 0),
      El("div", "", {"bloko-column_l-2"}, 1), T(<<50, 48, 49, 50>>, 2),
      El("div", "", {"bloko-column_l-10"}, 1),
      El("div", "resume-block-education-name", {}, 4), T(<<77, 83, 85>>, 5)>>
EduNarrowOnly ==   \* 2010 | (no wide column)
    <<El("div", "", {"resume-block-item-gap"}, 0),
      El("div", "", {"bloko-column_l-2"}, 1), T(<<50, 48, 49, 48>>, 2)>>

EduBlocks == {EduPlain, EduSpaced, EduDetails, EduLater, EduNarrowOnly}

\* how many blocks an experience section and an education section hold at most
MaxExpBlocks == 2
MaxEduBlocks == 3

\* <div data-qa=qa> block block ... </div>
Section(qa, blocks) == AttachAll(<<El("div", qa, {}, 0)>>, blocks, 1)

ResumeDocs ==
    {Section("resume-block-experience", bs) :
        bs \in {<<>>} \cup SeqsUpTo(ExpBlocks, MaxExpBlocks)}
    \cup {Section("resume-block-education", bs) :
        bs \in {<<>>} \cup SeqsUpTo(EduBlocks, MaxEduBlocks)}
    \cup {Attach(Section("resume-block-experience", <<ExpFull>>),
                 Section("resume-block-education", <<EduPlain, EduPlain>>), Root)}

VARIABLES
    rs_soup,   \* the soup _parse_resume is given
    rs_pc,     \* the section it stands before: experience, education, returned
    rs_data    \* the record it fills

rsVars == <<rs_soup, rs_pc, rs_data>>

RsInit ==
    /\ rs_soup \in ResumeDocs
    /\ rs_pc = "experience"
    /\ rs_data = ResumeDefaults

\* lines 142-193
RsExperience ==
    /\ rs_pc = "experience"
    /\ rs_data' = Put(rs_data, "experience_items",
                      rs_data["experience_items"] \o ResumeExperienceItems(rs_soup))
    /\ rs_pc' = "education"
    /\ UNCHANGED rs_soup

\* lines 196-215
RsEducation ==
    /\ rs_pc = "education"
    /\ rs_data' = Put(rs_data, "education_items",
                      rs_data["education_items"] \o ResumeEducationItems(rs_soup))
    /\ rs_pc' = "returned"
    /\ UNCHANGED rs_soup

RsNext == RsExperience \/ RsEducation

(***************************************************************************)
(* Section 2 of _parse_vacancy on the markup around the experience marker: *)
(* the marker, wrapped in a few levels of ancestors, each with the pieces  *)
(* that stand beside the marker at that level.                             *)
(***************************************************************************)

\* a text of n characters that starts with prefix
Filled(prefix, n) == prefix \o [i \in 1..(n - Len(prefix)) |-> 120]

P(str) == <<El("p", "", {}, 0), T(str, 1)>>         \* <p>str</p>
Span(str) == <<El("span", "", {}, 0), T(str, 1)>>   \* <span>str</span>

FullEmployment == <<1055, 1086, 1083, 1085, 1072, 1103, 32, 1079, 1072, 1085, 1103, 1090, 1086, 1089, 1090, 1100>>   \* "Полная занятость"
WorkingDays == <<1056, 1072, 1073, 1086, 1095, 1080, 1077, 32, 1076, 1085, 1080>>   \* "Рабочие дни"
Schedule52 == <<1043, 1088, 1072, 1092, 1080, 1082, 32, 53, 47, 50>>   \* "График 5/2"
Hours == <<1063, 1072, 1089, 1099, 58, 32, 57, 45, 49, 56>>   \* "Часы: 9-18"
FormatOffice == <<1060, 1086, 1088, 1084, 1072, 1090, 58, 32, 1086, 1092, 1080, 1089>>   \* "Формат: офис"
SchedulePrefix == <<1075, 1088, 1072, 1092, 1080, 1082, 32>>   \* "график "

\* <p>: nothing beside the marker
LevelWrapper == [name |-> "p", extras |-> <<>>]
\* <div>: one span with a keyword, no paragraph of its own
LevelFormat == [name |-> "div", extras |-> <<Span(FormatOffice)>>]
\* <div>: the conditions as paragraphs, some of them repeated
LevelConditions ==
    [name |-> "div",
     extras |-> <<P(FullEmployment), P(WorkingDays), P(Schedule52),
                  P(PrefixExperience \o <<32>> \o Schedule52), Span(FullEmployment),
                  P(PrefixExperience)>>]
\* <section>: a span with a keyword and <div><p>Office</p></div>
LevelNested ==
    [name |-> "section",
     extras |-> <<Span(Hours),
                  <<El("div", "", {}, 0), El("p", "", {}, 1), T(<<79, 102, 102, 105, 99, 101>>, 2)>> >>]
\* <div>: schedule fragments of 90, 100 and 101 characters, a description
\* paragraph of 500 characters, an empty and a blank span
LevelLong ==
    [name |-> "div",
     extras |-> <<P(Filled(SchedulePrefix, 90)), P(Filled(SchedulePrefix, 500)),
                  Span(Filled(SchedulePrefix, 100)), Span(Filled(SchedulePrefix, 101)),
                  <<El("span", "", {}, 0)>>, Span(<<32, 32>>)>>]

LevelKinds == {LevelWrapper, LevelFormat, LevelConditions, LevelNested, LevelLong}

\* <span data-qa="vacancy-experience">1-3</span>, and one whose text is a condition
MarkerPlain == <<El("span", "vacancy-experience", {}, 0), T(<<49, 45, 51>>, 1)>>
MarkerSchedule == <<El("span", "vacancy-experience", {}, 0), T(Schedule52, 1)>>

\* inner wrapped in the levels, the first level being the innermost
RECURSIVE Chain(_, _)
Chain(levels, inner) ==
    IF levels = <<>> THEN inner
    ELSE Chain(Tail(levels),
               AttachAll(Attach(<<El(Head(levels).name, "", {}, 0)>>, inner, 1),
                         Head(levels).extras, 1))

\* how many levels of ancestors the marker has at most
MaxLevels == 4

VacancyDocs ==
    {Chain(ls, m) : ls \in {<<>>} \cup SeqsUpTo(LevelKinds, MaxLevels),
                    m \in {MarkerPlain, MarkerSchedule}}
    \cup {Chain(<<LevelConditions>>, FragDescription)}

VARIABLES
    vc_soup,        \* the soup _parse_vacancy is given
    vc_pc,          \* where section 2 stands: find, walk, collect, returned
    vc_container,   \* the scope chosen by the walk
    vc_data         \* the record it fills

vcVars == <<vc_soup, vc_pc, vc_container, vc_data>>

VcInit ==
    /\ vc_soup \in VacancyDocs
    /\ vc_pc = "find"
    /\ vc_container = NoNode
    /\ vc_data = VacancyDefaults

\* lines 277-279
VcFind ==
    /\ vc_pc = "find"
    /\ LET exp_node == Find(vc_soup, Root, ByQa("vacancy-experience"))
       IN  IF exp_node = NoNode
           THEN vc_pc' = "returned" /\ UNCHANGED vc_data
           ELSE /\ vc_data' = Put(vc_data, "experience", ExtractText(vc_soup, exp_node))
                /\ vc_pc' = "walk"
    /\ UNCHANGED <<vc_soup, vc_container>>

\* lines 286-304
VcWalk ==
    /\ vc_pc = "walk"
    /\ vc_container' = ScopeWalk(vc_soup, Find(vc_soup, Root, ByQa("vacancy-experience")),
                                 NoNode, ScopeLevels)
    /\ vc_pc' = IF vc_container' = NoNode THEN "returned" ELSE "collect"
    /\ UNCHANGED <<vc_soup, vc_data>>

\* lines 306-330
VcCollect ==
    /\ vc_pc = "collect"
    /\ vc_data' = Put(vc_data, "schedule",
                      vc_data["schedule"] \o ScheduleLoop(vc_soup,
                          InOrder(Descendants(vc_soup, vc_container)),
                          {vc_data["experience"]}))
    /\ vc_pc' = "returned"
    /\ UNCHANGED <<vc_soup, vc_container>>

VcNext == VcFind \/ VcWalk \/ VcCollect

(***************************************************************************)
(* One parser instance used by several parse calls at once.  An instance   *)
(* of MHTMLParser holds the three catalogs __init__ sets; an instance of   *)
(* HHParser holds nothing.  What a call works on (html_content, soup) is a *)
(* local variable of that call.                                            *)
(***************************************************************************)

\* self.stop_phrases_exact
StopPhrasesExact ==
    <<<<1054, 1090, 1082, 1083, 1080, 1082, 1085, 1091, 1090, 1100, 1089, 1103>>,   \* "Откликнуться"
      <<1055, 1086, 1082, 1072, 1079, 1072, 1090, 1100, 32, 1082, 1086, 1085, 1090, 1072, 1082, 1090, 1099>>,   \* "Показать контакты"
      <<1055, 1086, 1082, 1072, 1079, 1072, 1090, 1100, 32, 1085, 1072, 32, 1073, 1086, 1083, 1100, 1096, 1086, 1081, 32, 1082, 1072, 1088, 1090, 1077>>,   \* "Показать на большой карте"
      <<169, 32, 1071, 1085, 1076, 1077, 1082, 1089, 32, 1059, 1089, 1083, 1086, 1074, 1080, 1103, 32, 1080, 1089, 1087, 1086, 1083, 1100, 1079, 1086, 1074, 1072, 1085, 1080, 1103>>,   \* "© Яндекс Условия использования"
      <<1054, 1094, 1077, 1085, 1082, 1072, 32, 68, 114, 101, 97, 109, 32, 74, 111, 98>>,   \* "Оценка Dream Job"
      <<1056, 1077, 1082, 1086, 1084, 1077, 1085, 1076, 1091, 1102, 1090, 32, 1088, 1072, 1073, 1086, 1090, 1086, 1076, 1072, 1090, 1077, 1083, 1103>>,   \* "Рекомендуют работодателя"
      <<1042, 1089, 1077, 32, 1086, 1090, 1079, 1099, 1074, 1099, 32, 1085, 1072, 32, 68, 114, 101, 97, 109, 32, 74, 111, 98>>,   \* "Все отзывы на Dream Job"
      <<1044, 1088, 1091, 1075, 1080, 1077, 32, 1074, 1072, 1082, 1072, 1085, 1089, 1080, 1080>>,   \* "Другие вакансии"
      <<1055, 1086, 1093, 1086, 1078, 1080, 1077, 32, 1074, 1072, 1082, 1072, 1085, 1089, 1080, 1080>>>>   \* "Похожие вакансии"

\* self.skip_sections
SkipSections ==
    <<<<1047, 1072, 1076, 1072, 1081, 1090, 1077, 32, 1074, 1086, 1087, 1088, 1086, 1089, 32, 1088, 1072, 1073, 1086, 1090, 1086, 1076, 1072, 1090, 1077, 1083, 1102>>,   \* "Задайте вопрос работодателю"
      <<1063, 1077, 1084, 1091, 32, 1084, 1086, 1078, 1085, 1086, 32, 1085, 1072, 1091, 1095, 1080, 1090, 1100, 1089, 1103, 44, 32, 1087, 1086, 1082, 1072, 32, 1074, 1099, 32, 1074, 32, 1087, 1086, 1080, 1089, 1082, 1077>>>>   \* "Чему можно научиться, пока вы в поиске"

\* the attributes of an MHTMLParser after __init__
MhSelf ==
    [stop_phrases_exact |-> StopPhrasesExact,
     skip_sections |-> SkipSections,
     garbage_selectors |-> [classes |-> GarbageClasses, qa |-> GarbageQa]]

\* soup.select(", ".join(selectors)), in document order
SelectBy(sp, selectors) ==
    SelectSeq(Below(sp, Root),
              LAMBDA i : /\ sp.node[i].name # "#text"
                         /\ \/ sp.node[i].cls \cap selectors.classes # {}
                            \/ sp.node[i].qa \in selectors.qa)

\* _clean_soup with the selectors it reads from the instance
CleanSoupWith(sp, selectors) ==
    LET cleaned == CleanLandmarks(CleanTags(sp))
    IN  DecomposeAttached(cleaned, SelectBy(cleaned, selectors))

\* what MHTMLParser.parse returns for a cleaned soup: the flowed text, named
\* by the renderer picked, the soup it is rendered from and the catalogs
\* _finalize_text filters it with
Rendered(sp, stop_phrases_exact, skip_sections) ==
    [kind |-> IF \E i \in Nodes(sp) : sp.node[i].qa = "vacancy-description"
              THEN "vacancy" ELSE "resume",
     soup |-> sp,
     stop_phrases_exact |-> stop_phrases_exact,
     skip_sections |-> skip_sections]

\* a variable that every call keeps in one place, the instance
LocalShared(call) == 1

\* where a call keeps its local variables: in its own frame
LocalOf(call) == call

\* how many calls run on the instance at once
MaxCalls == 2

\* the decoded texts MHTMLParser.parse is run on
ShTexts ==
    {<<>>, FragTitle, FragDescription,
     Attach(FragDescription, <<El("div", "", {"bloko-button"}, 0), T(<<79, 75>>, 1)>>, Root),
     Attach(FragTitle, <<El("nav", "", {}, 0), FragSalary[1], FragSalary[2]>>, Root)}

\* the contents HHParser.parse is run on
ShContents ==
    {[mime_version |-> FALSE, content_type |-> FALSE, msg |-> NoMessage, body |-> d] :
        d \in {FragTitle, FragConditions, Attach(FragVacancyTitle, FragConditions, Root)}}
    \cup {[mime_version |-> TRUE, content_type |-> TRUE,
           msg |-> Leaf("text/html", Null, PayVacancy), body |-> BodyOpaque]}

VARIABLES
    sh_parser,   \* the class of the instance: "hh" or "mh"
    sh_self,     \* the attributes of the instance
    sh_input,    \* per call: the argument of parse
    sh_pc,       \* per call: where it stands
    sh_local,    \* per frame: html_content (HHParser) or soup (MHTMLParser)
    sh_result    \* per call: what it returned

shVars == <<sh_parser, sh_self, sh_input, sh_pc, sh_local, sh_result>>

Calls == 1..MaxCalls

ShInit ==
    /\ sh_parser \in {"hh", "mh"}
    /\ sh_self = IF sh_parser = "mh" THEN MhSelf ELSE [none \in {} |-> Null]
    /\ sh_input \in [Calls -> IF sh_parser = "mh" THEN ShTexts ELSE ShContents]
    /\ sh_pc = [c \in Calls |-> "start"]
    /\ sh_local = [c \in Calls |-> IF sh_parser = "mh" THEN SoupOf(<<>>) ELSE <<>>]
    /\ sh_result = [c \in Calls |-> Absent]

\* MHTMLParser.parse, lines 61-66: the empty text is given up, else the soup is built
ShSoup(c) ==
    /\ sh_parser = "mh" /\ sh_pc[c] = "start"
    /\ IF EmptyText(sh_input[c])
       THEN /\ sh_pc' = [sh_pc EXCEPT ![c] = "returned"]
            /\ UNCHANGED sh_local
       ELSE /\ sh_local' = [sh_local EXCEPT ![LocalOf(c)] = SoupOf(sh_input[c])]
            /\ sh_pc' = [sh_pc EXCEPT ![c] = "soup"]
    /\ UNCHANGED <<sh_parser, sh_self, sh_input, sh_result>>

\* MHTMLParser.parse, line 67
ShClean(c) ==
    /\ sh_parser = "mh" /\ sh_pc[c] = "soup"
    /\ sh_local' = [sh_local EXCEPT ![LocalOf(c)] =
                       CleanSoupWith(sh_local[LocalOf(c)], sh_self.garbage_selectors)]
    /\ sh_pc' = [sh_pc EXCEPT ![c] = "clean"]
    /\ UNCHANGED <<sh_parser, sh_self, sh_input, sh_result>>

\* MHTMLParser.parse, lines 70-75
ShRender(c) ==
    /\ sh_parser = "mh" /\ sh_pc[c] = "clean"
    /\ sh_result' = [sh_result EXCEPT ![c] =
                        Rendered(sh_local[LocalOf(c)], sh_self.stop_phrases_exact,
                                 sh_self.skip_sections)]
    /\ sh_pc' = [sh_pc EXCEPT ![c] = "returned"]
    /\ UNCHANGED <<sh_parser, sh_self, sh_input, sh_local>>

\* HHParser.parse, line 16
ShExtract(c) ==
    /\ sh_parser = "hh" /\ sh_pc[c] = "start"
    /\ sh_local' = [sh_local EXCEPT ![LocalOf(c)] = ExtractHtmlFromMhtml(sh_input[c])]
    /\ sh_pc' = [sh_pc EXCEPT ![c] = "extracted"]
    /\ UNCHANGED <<sh_parser, sh_self, sh_input, sh_result>>

\* HHParser.parse, lines 17-27
ShParse(c) ==
    /\ sh_parser = "hh" /\ sh_pc[c] = "extracted"
    /\ sh_result' = [sh_result EXCEPT ![c] =
                        IF IsVacancy(sh_local[LocalOf(c)])
                        THEN ParseVacancy(sh_local[LocalOf(c)])
                        ELSE ParseResume(sh_local[LocalOf(c)])]
    /\ sh_pc' = [sh_pc EXCEPT ![c] = "returned"]
    /\ UNCHANGED <<sh_parser, sh_self, sh_input, sh_local>>

ShNext ==
    \E c \in Calls : ShSoup(c) \/ ShClean(c) \/ ShRender(c) \/ ShExtract(c) \/ ShParse(c)

(***************************************************************************)
(* src/analyze_candidates.py: get_llm_analysis and process_batch_async.    *)
(*                                                                         *)
(* What the scoring service answers to one request is known by its kind:   *)
(* the content of the first choice (None, "", text that validates against  *)
(* CandidateAnalysis, text that is not JSON, JSON that does not fit the    *)
(* schema) or the exception client.chat.completions.create raises.         *)
(***************************************************************************)

MAX_CONCURRENT_REQUESTS == 5
max_retries == 5
base_delay == 5

\* "if not content": None and ""
EmptyContents == {"none", "empty"}
\* what model_validate_json raises ValidationError for
InvalidContents == {"malformed", "schema_invalid"}
\* RateLimitError, and an APIError whose code is 429
RateLimits == {"RateLimitError", "APIError429"}
\* exceptions that are no APIError (response.choices is empty, ...)
OtherErrors == {"IndexError"}

Responses ==
    {"valid"} \cup EmptyContents \cup InvalidContents \cup RateLimits
    \cup {"APIError"} \cup OtherErrors

\* a handler that also tries again after a content that does not validate
HandleRetriesInvalid(response, k) ==
    IF response \in RateLimits \cup InvalidContents
    THEN [pc |-> "sleep", wait_time |-> base_delay * (2 ^ k), result |-> "unset"]
    ELSE IF response = "valid"
    THEN [pc |-> "returned", wait_time |-> 0, result |-> "analysis"]
    ELSE [pc |-> "returned", wait_time |-> 0, result |-> "None"]

\* lines 76-112: what one turn of the loop does with the answer to the
\* request of attempt k: where the call goes on, how long it sleeps first,
\* what it returns or raises
Handle(response, k) ==
    IF response \in EmptyContents
    THEN [pc |-> "returned", wait_time |-> 0, result |-> "None"]
    ELSE IF response = "valid"
    THEN [pc |-> "returned", wait_time |-> 0, result |-> "analysis"]
    ELSE IF response \in InvalidContents
    THEN [pc |-> "returned", wait_time |-> 0, result |-> "None"]
    ELSE IF response \in RateLimits
    THEN [pc |-> "sleep", wait_time |-> base_delay * (2 ^ k), result |-> "unset"]
    ELSE IF response = "APIError"
    THEN [pc |-> "raised", wait_time |-> 0, result |-> "APIError"]
    ELSE [pc |-> "returned", wait_time |-> 0, result |-> "None"]

\* a loop of one turn more
LoopContinuesOnceMore(k) == k + 1 <= max_retries

\* line 59, for attempt in range(max_retries): whether a turn follows turn k
LoopContinues(k) == k + 1 < max_retries

\* a semaphore that takes no permit on entering
AcquireKeeps(value) == value

\* asyncio.Semaphore: entering and leaving "async with semaphore"
Acquire(value) == value - 1
Release(value) == value + 1

\* where a task of process_batch_async stands, and in which attempt
St(pc, k) == [pc |-> pc, attempt |-> k]

\* a task inside "async with semaphore": awaiting the answer or sleeping
InsideStates == {St(p, k) : p \in {"request", "sleep"}, k \in 0..(max_retries - 1)}

\* a task that is over: it returned a result, returned None or raised
DoneStates == {St("analysis", 0), St("None", 0), St("APIError", 0)}

TaskStates == {St("created", 0), St("waiting", 0)} \cup InsideStates \cup DoneStates

\* how many (vacancy, resume) pairs a batch has at most
MaxTasks == 6

VARIABLES
    semaphore,    \* the value of the module's asyncio.Semaphore
    llm_pc,       \* one call of get_llm_analysis: where it stands
    attempt,      \* its loop variable
    wait_time,    \* what it sleeps
    llm_log,      \* the answers to its requests, in order
    llm_slept,    \* the times it has slept, in order
    llm_result,   \* what it returned or raised
    tasks,        \* a batch: how many of its tasks are in each state
    ba_pc,        \* process_batch_async: gather, returned, raised
    valid_results \* the number of results it returned

anVars == <<semaphore, llm_pc, attempt, wait_time, llm_log, llm_slept, llm_result,
            tasks, ba_pc, valid_results>>

llmVars == <<llm_pc, attempt, wait_time, llm_log, llm_slept, llm_result>>
baVars == <<tasks, ba_pc, valid_results>>

LlmIdle ==
    /\ llm_pc = "idle"
    /\ attempt = 0
    /\ wait_time = 0
    /\ llm_log = <<>>
    /\ llm_slept = <<>>
    /\ llm_result = "unset"

BaIdle ==
    /\ tasks = [s \in TaskStates |-> 0]
    /\ ba_pc = "idle"
    /\ valid_results = 0

(***************************************************************************)
(* One call of get_llm_analysis                                            *)
(***************************************************************************)

LlmInit ==
    /\ semaphore = MAX_CONCURRENT_REQUESTS
    /\ llm_pc = "prompt"
    /\ attempt = 0
    /\ wait_time = 0
    /\ llm_log = <<>>
    /\ llm_slept = <<>>
    /\ llm_result = "unset"
    /\ BaIdle

\* lines 41-56: the prompt template is loaded, or the call gives up
LlmLoadPrompt ==
    /\ llm_pc = "prompt"
    /\ \/ llm_pc' = "acquire" /\ UNCHANGED llm_result
       \/ llm_pc' = "returned" /\ llm_result' = "None"    \* FileNotFoundError
    /\ UNCHANGED <<semaphore, attempt, wait_time, llm_log, llm_slept, baVars>>

\* line 58-59: async with semaphore, and the loop starts
LlmAcquire ==
    /\ llm_pc = "acquire"
    /\ semaphore > 0
    /\ semaphore' = Acquire(semaphore)
    /\ attempt' = 0
    /\ llm_pc' = "request"
    /\ UNCHANGED <<wait_time, llm_log, llm_slept, llm_result, baVars>>

\* lines 60-112: one request and what its answer leads to
LlmRequest ==
    /\ llm_pc = "request"
    /\ \E response \in Responses :
        LET h == Handle(response, attempt)
        IN  /\ llm_log' = Append(llm_log, response)
            /\ llm_pc' = h.pc
            /\ wait_time' = IF h.pc = "sleep" THEN h.wait_time ELSE wait_time
            /\ llm_result' = h.result
            /\ semaphore' = IF h.pc = "sleep" THEN semaphore ELSE Release(semaphore)
    /\ UNCHANGED <<attempt, llm_slept, baVars>>

\* lines 100 and 106, then the next turn of the loop or lines 114-115
LlmSleep ==
    /\ llm_pc = "sleep"
    /\ llm_slept' = Append(llm_slept, wait_time)
    /\ IF LoopContinues(attempt)
       THEN /\ attempt' = attempt + 1
            /\ llm_pc' = "request"
            /\ UNCHANGED <<semaphore, llm_result>>
       ELSE /\ llm_pc' = "returned"
            /\ llm_result' = "None"
            /\ semaphore' = Release(semaphore)
            /\ UNCHANGED attempt
    /\ UNCHANGED <<wait_time, llm_log, baVars>>

LlmNext == LlmLoadPrompt \/ LlmAcquire \/ LlmRequest \/ LlmSleep

(***************************************************************************)
(* process_batch_async: the tasks of a batch, all alike, and gather        *)
(***************************************************************************)

Move(bag, from, to) == [bag EXCEPT ![from] = @ - 1, ![to] = @ + 1]

\* how many tasks are in one of the states
RECURSIVE Count(_, _)
Count(bag, states) ==
    IF states = {} THEN 0
    ELSE LET s == CHOOSE x \in states : TRUE
         IN  bag[s] + Count(bag, states \ {s})

BaInit ==
    /\ semaphore = MAX_CONCURRENT_REQUESTS
    /\ \E n \in 0..MaxTasks :
           tasks = [s \in TaskStates |-> IF s = St("created", 0) THEN n ELSE 0]
    /\ ba_pc = "gather"
    /\ valid_results = 0
    /\ LlmIdle

\* A task runs for the first time: process_pair up to its first await.  It
\* gives up before the request (lines 161-164, 176-179, 44-46), or enters
\* "async with semaphore" and sends its request, or waits for the semaphore.
BaStart ==
    /\ ba_pc = "gather"
    /\ tasks[St("created", 0)] > 0
    /\ \/ /\ tasks' = Move(tasks, St("created", 0), St("None", 0))
          /\ UNCHANGED semaphore
       \/ IF semaphore > 0
          THEN /\ tasks' = Move(tasks, St("created", 0), St("request", 0))
               /\ semaphore' = Acquire(semaphore)
          ELSE /\ tasks' = Move(tasks, St("created", 0), St("waiting", 0))
               /\ UNCHANGED semaphore
    /\ UNCHANGED <<llmVars, ba_pc, valid_results>>

\* The answer to the request of a task arrives (the event loop runs every
\* task that is ready before it looks at the network).
BaRespond ==
    /\ ba_pc = "gather"
    /\ tasks[St("created", 0)] = 0
    /\ \E k \in 0..(max_retries - 1), response \in Responses :
        LET h == Handle(response, k)
        IN  /\ tasks[St("request", k)] > 0
            /\ IF h.pc = "sleep"
               THEN /\ tasks' = Move(tasks, St("request", k), St("sleep", k))
                    /\ UNCHANGED semaphore
               ELSE /\ tasks' = Move(tasks, St("request", k), St(h.result, 0))
                    /\ semaphore' = Release(semaphore)
    /\ UNCHANGED <<llmVars, ba_pc, valid_results>>

\* the sleep of a task is over: its next request, or lines 114-115
BaSleepOver ==
    /\ ba_pc = "gather"
    /\ tasks[St("created", 0)] = 0
    /\ \E k \in 0..(max_retries - 1) :
        /\ tasks[St("sleep", k)] > 0
        /\ IF LoopContinues(k)
           THEN /\ tasks' = Move(tasks, St("sleep", k), St("request", k + 1))
                /\ UNCHANGED semaphore
           ELSE /\ tasks' = Move(tasks, St("sleep", k), St("None", 0))
                /\ semaphore' = Release(semaphore)
    /\ UNCHANGED <<llmVars, ba_pc, valid_results>>

\* a task waiting for the semaphore gets it and sends its request
BaWake ==
    /\ ba_pc = "gather"
    /\ tasks[St("waiting", 0)] > 0
    /\ semaphore > 0
    /\ tasks' = Move(tasks, St("waiting", 0), St("request", 0))
    /\ semaphore' = Acquire(semaphore)
    /\ UNCHANGED <<llmVars, ba_pc, valid_results>>

\* lines 228-232: gather raises what a task raised, or returns when all
\* tasks are over; the results that are not None are returned
BaGather ==
    /\ ba_pc = "gather"
    /\ IF tasks[St("APIError", 0)] > 0
       THEN ba_pc' = "raised" /\ UNCHANGED valid_results
       ELSE /\ Count(tasks, TaskStates \ DoneStates) = 0
            /\ ba_pc' = "returned"
            /\ valid_results' = tasks[St("analysis", 0)]
    /\ UNCHANGED <<llmVars, semaphore, tasks>>

BaNext == BaStart \/ BaRespond \/ BaSleepOver \/ BaWake \/ BaGather

(***************************************************************************)
(* src/extract_mhtml.py: MHTMLParser._finalize_text, the pass over the     *)
(* lines of the flowed text that drops blank lines, technical blobs, lines *)
(* with a stop phrase and skipped sections, and sets a blank line before   *)
(* every heading but the first line.                                       *)
(***************************************************************************)

Hash == 35
Brace == 123
TechLen == 100
MaxLineLen == 5000

WordTrl == <<116, 114, 108>>   \* "trl"
WordPublished == <<1042, 1072, 1082, 1072, 1085, 1089, 1080, 1103, 32, 1086, 1087, 1091, 1073, 1083, 1080, 1082, 1086, 1074, 1072, 1085, 1072>>   \* "Вакансия опубликована"

\* the code points str.splitlines() breaks a text at
LineBreaks == {10, 11, 12, 13, 28, 29, 30, 133, 8232, 8233}

\* str.splitlines(): the pieces between the line breaks, "\r\n" being one
\* break, and no empty piece after a break that ends the text
SplitLines(s) ==
    LET ends == {i \in 1..Len(s) :
                    /\ s[i] \in LineBreaks
                    /\ ~(s[i] = 13 /\ i < Len(s) /\ s[i + 1] = 10)}
        stops == IF s = <<>> \/ Len(s) \in ends THEN ends ELSE ends \cup {Len(s) + 1}
        start(e) == IF \E d \in ends : d < e
                    THEN 1 + CHOOSE d \in ends : d < e /\ \A x \in ends : x < e => x <= d
                    ELSE 1
        last(e) == IF e <= Len(s) /\ s[e] = 10 /\ e > 1 /\ s[e - 1] = 13 THEN e - 2 ELSE e - 1
        nth(k) == CHOOSE e \in stops : Cardinality({x \in stops : x <= e}) = k
    IN  [k \in 1..Cardinality(stops) |-> SubSeq(s, start(nth(k)), last(nth(k)))]

\* str.lstrip("#")
RECURSIVE LStripHash(_)
LStripHash(s) == IF s # <<>> /\ Head(s) = Hash THEN LStripHash(Tail(s)) ELSE s

\* re.sub(r"\s+", " ", s)
RECURSIVE CollapseSpaces(_)
CollapseSpaces(s) ==
    IF s = <<>> THEN <<>>
    ELSE IF IsSpace(Head(s))
    THEN <<32>> \o CollapseSpaces(LStrip(s))
    ELSE <<Head(s)>> \o CollapseSpaces(Tail(s))

\* a check for the stop phrases as they are written
HasStopPhraseAsWritten(line_str, stop_phrases_exact) ==
    \E k \in 1..Len(stop_phrases_exact) : Contains(line_str, stop_phrases_exact[k])

\* lines 268-272: any(phrase.lower() in line_str.lower() ...)
HasStopPhrase(line_str, stop_phrases_exact) ==
    \E k \in 1..Len(stop_phrases_exact) :
        Contains(Lower(line_str), Lower(stop_phrases_exact[k]))

\* lines 257-275: why a stripped line is dropped before sections are looked
\* at, or "pass"
LineFilter(line_str, stop_phrases_exact) ==
    IF line_str = <<>> THEN "blank"
    ELSE IF StartsWith(line_str, <<Brace>>) /\ Len(line_str) > TechLen
            /\ Contains(line_str, WordTrl)
    THEN "technical"
    ELSE IF Len(line_str) > MaxLineLen THEN "long"
    ELSE IF HasStopPhrase(line_str, stop_phrases_exact) THEN "stop"
    ELSE IF Contains(line_str, WordPublished) THEN "published"
    ELSE "pass"

IsHeading(line_str) == StartsWith(line_str, <<Hash>>)

\* lines 279-283: whether the text of a heading names a section to skip
IsSkipHeader(line_str, skip_sections) ==
    LET header_text == Strip(LStripHash(line_str))
        header_text_norm == CollapseSpaces(header_text)
    IN  \E k \in 1..Len(skip_sections) :
            Contains(Lower(header_text_norm), Lower(skip_sections[k]))

\* a flag that no heading takes back
InSkipSticky(flag, line_str, skip_sections) ==
    flag \/ (IsHeading(line_str) /\ IsSkipHeader(line_str, skip_sections))

\* lines 278-287: in_skip_section after a line that passed the filters
InSkip(flag, line_str, skip_sections) ==
    IF IsHeading(line_str) THEN IsSkipHeader(line_str, skip_sections) ELSE flag

\* lines 254-297: one turn of the loop on a line; fate tells what became of
\* the line
LineStep(st, line, self) ==
    LET line_str == Strip(line)
        filter == LineFilter(line_str, self.stop_phrases_exact)
    IN  IF filter # "pass"
        THEN [clean_lines |-> st.clean_lines, in_skip_section |-> st.in_skip_section,
              fate |-> filter]
        ELSE IF InSkip(st.in_skip_section, line_str, self.skip_sections)
        THEN [clean_lines |-> st.clean_lines, in_skip_section |-> TRUE, fate |-> "skipped"]
        ELSE [clean_lines |-> st.clean_lines
                              \o (IF IsHeading(line_str) /\ st.clean_lines # <<>>
                                  THEN << <<>> >> ELSE <<>>)
                              \o <<line_str>>,
              in_skip_section |-> FALSE,
              fate |-> "kept"]

\* the loop from line i on
RECURSIVE FinalizeLoop(_, _, _, _)
FinalizeLoop(lines, i, st, self) ==
    IF i > Len(lines) THEN st
    ELSE FinalizeLoop(lines, i + 1, LineStep(st, lines[i], self), self)

\* line 299
JoinLines(list) == Strip(Join(<<Newline>>, list))

\* _finalize_text(text)
FinalizeText(text, self) ==
    JoinLines(FinalizeLoop(SplitLines(text), 1,
                           [clean_lines |-> <<>>, in_skip_section |-> FALSE, fate |-> "none"],
                           self).clean_lines)

\* the lines the texts are made of
LinePlain == <<84, 101, 120, 116>>   \* "Text"
LineIndented == <<32, 32, 80, 121, 116, 104, 111, 110, 32, 9>>   \* "  Python \t"
LineBlank == <<32, 32>>   \* "  "
LineHeading == <<35, 32, 83, 107, 105, 108, 108, 115>>   \* "# Skills"
LineSkipHeading == <<35, 35, 32, 1047, 1072, 1076, 1072, 1081, 1090, 1077, 32, 1074, 1086, 1087, 1088, 1086, 1089, 32, 1088, 1072, 1073, 1086, 1090, 1086, 1076, 1072, 1090, 1077, 1083, 1102>>   \* "## Задайте вопрос работодателю"
LineStopHeading == <<35, 35, 32, 1055, 1086, 1093, 1086, 1078, 1080, 1077, 32, 1074, 1072, 1082, 1072, 1085, 1089, 1080, 1080>>   \* "## Похожие вакансии"
LineStopLower == <<1086, 1090, 1082, 1083, 1080, 1082, 1085, 1091, 1090, 1100, 1089, 1103, 32, 1089, 1077, 1081, 1095, 1072, 1089>>   \* "откликнуться сейчас"
LineSkipLoose == <<35, 32, 32, 1047, 1040, 1044, 1040, 1049, 1058, 1045, 32, 32, 32, 1074, 1086, 1087, 1088, 1086, 1089, 9, 1088, 1072, 1073, 1086, 1090, 1086, 1076, 1072, 1090, 1077, 1083, 1102, 63>>   \* "#  ЗАДАЙТЕ   вопрос\tработодателю?"
LineSkipAndStop == <<35, 32, 1047, 1072, 1076, 1072, 1081, 1090, 1077, 32, 1074, 1086, 1087, 1088, 1086, 1089, 32, 1088, 1072, 1073, 1086, 1090, 1086, 1076, 1072, 1090, 1077, 1083, 1102, 32, 1054, 1090, 1082, 1083, 1080, 1082, 1085, 1091, 1090, 1100, 1089, 1103>>   \* "# Задайте вопрос работодателю Откликнуться"
LinePublished == <<1042, 1072, 1082, 1072, 1085, 1089, 1080, 1103, 32, 1086, 1087, 1091, 1073, 1083, 1080, 1082, 1086, 1074, 1072, 1085, 1072, 32, 49, 32, 1084, 1072, 1103>>   \* "Вакансия опубликована 1 мая"
LineHashOnly == <<35>>   \* "#"
LineLong == [i \in 1..(MaxLineLen + 1) |-> 120]          \* 5001 times "x"
LineFull == [i \in 1..MaxLineLen |-> 120]                \* 5000 times "x"
LineTech == <<Brace>> \o WordTrl \o [i \in 1..(TechLen - 3) |-> 120]   \* 101 characters
LineTechShort == <<Brace>> \o WordTrl \o [i \in 1..(TechLen - 4) |-> 120]   \* 100 characters

LineKinds ==
    {LinePlain, LineIndented, LineBlank, LineHeading, LineSkipHeading,
     LineStopHeading, LineStopLower, LineLong}

\* how many lines a text has at most
MaxLines == 3

\* texts with the line breaks and lines that are not combined with all others
ExtraTexts ==
    {Join(<<13, 10>>, <<LineHeading, LinePlain, LineHeading>>),
     Join(<<13>>, <<LinePlain, LineBlank, LineHeading>>) \o <<10>>,
     Join(<<8232>>, <<LineHeading, LinePlain>>) \o <<13, 10>>,
     <<10, 10>>,
     Join(<<10>>, <<LinePlain, LineSkipLoose, LinePlain, LineHashOnly, LinePlain>>),
     Join(<<10>>, <<LineSkipAndStop, LinePlain, LineHeading>>),
     Join(<<10>>, <<LineSkipHeading, LinePlain, LineHeading, LinePlain>>),
     Join(<<10>>, <<LineHeading, LineSkipHeading, LineStopHeading, LineIndented>>),
     Join(<<10>>, <<LinePublished, LineTech, LineTechShort, LineHeading>>),
     Join(<<10>>, <<LineSkipHeading, LineStopHeading, LinePlain, LineHeading, LinePlain>>),
     Join(<<10>>, <<LinePlain, LineStopLower, LineLong, LineBlank, LineHeading>>),
     Join(<<10>>, <<LineFull, LineLong>>)}

FinalizeTexts ==
    {Join(<<Newline>>, ls) : ls \in {<<>>} \cup SeqsUpTo(LineKinds, MaxLines)}
    \cup ExtraTexts

VARIABLES
    ft_text,          \* the text _finalize_text is given
    ft_pc,            \* where it stands: split, loop, returned, again
    ft_lines,         \* text.splitlines()
    ft_i,             \* the line the loop stands before
    clean_lines,      \* the lines kept so far
    in_skip_section,  \* the flag of the loop
    ft_fate,          \* what became of each line read so far
    ft_out,           \* what the call returned
    ft_again          \* what a second call, on what the first returned, returned

ftVars == <<ft_text, ft_pc, ft_lines, ft_i, clean_lines, in_skip_section, ft_fate,
            ft_out, ft_again>>

FtIdle ==
    /\ ft_text = <<>>
    /\ ft_pc = "idle"
    /\ ft_lines = <<>>
    /\ ft_i = 0
    /\ clean_lines = <<>>
    /\ in_skip_section = FALSE
    /\ ft_fate = <<>>
    /\ ft_out = <<>>
    /\ ft_again = <<>>

FtInit ==
    /\ ft_text \in FinalizeTexts
    /\ ft_pc = "split"
    /\ ft_lines = <<>>
    /\ ft_i = 0
    /\ clean_lines = <<>>
    /\ in_skip_section = FALSE
    /\ ft_fate = <<>>
    /\ ft_out = <<>>
    /\ ft_again = <<>>

\* lines 252-254
FtSplit ==
    /\ ft_pc = "split"
    /\ ft_lines' = SplitLines(ft_text)
    /\ ft_i' = 1
    /\ ft_pc' = "loop"
    /\ UNCHANGED <<ft_text, clean_lines, in_skip_section, ft_fate, ft_out, ft_again>>

\* lines 256-297: one line
FtLine ==
    /\ ft_pc = "loop"
    /\ ft_i <= Len(ft_lines)
    /\ LET st == LineStep([clean_lines |-> clean_lines,
                           in_skip_section |-> in_skip_section, fate |-> "none"],
                          ft_lines[ft_i], MhSelf)
       IN  /\ clean_lines' = st.clean_lines
           /\ in_skip_section' = st.in_skip_section
           /\ ft_fate' = Append(ft_fate, st.fate)
    /\ ft_i' = ft_i + 1
    /\ UNCHANGED <<ft_text, ft_pc, ft_lines, ft_out, ft_again>>

\* line 299
FtJoin ==
    /\ ft_pc = "loop"
    /\ ft_i > Len(ft_lines)
    /\ ft_out' = JoinLines(clean_lines)
    /\ ft_pc' = "returned"
    /\ UNCHANGED <<ft_text, ft_lines, ft_i, clean_lines, in_skip_section, ft_fate, ft_again>>

\* _finalize_text called on what it returned
FtAgain ==
    /\ ft_pc = "returned"
    /\ ft_again' = FinalizeText(ft_out, MhSelf)
    /\ ft_pc' = "again"
    /\ UNCHANGED <<ft_text, ft_lines, ft_i, clean_lines, in_skip_section, ft_fate, ft_out>>

FtNext == FtSplit \/ FtLine \/ FtJoin \/ FtAgain

(***************************************************************************)
(* src/generate_report.py: generate_markdown_report on the results of a    *)
(* batch.  A result is known by its vacancy_file, its resume_file and its  *)
(* scoring.total_score; a line of the report by its kind and, for the      *)
(* heading of a candidate, the number, the file and the score it prints.   *)
(***************************************************************************)

\* the vacancy files and the scores of the results
VacancyFiles == {"v1.mhtml", "v2.mhtml"}
Scores == {45, 80}

\* how many results a batch has at most
MaxResults == 6

\* The results process_batch_async returns: process_pair gives each the
\* names of its vacancy and its resume; the resumes of a vacancy differ.
ReportResults ==
    UNION {[1..n -> [vacancy_file : VacancyFiles, total_score : Scores]] : n \in 1..MaxResults}

Result(r, i) ==
    [vacancy_file |-> r[i].vacancy_file, resume_file |-> i, total_score |-> r[i].total_score]

\* a line of the report
Line(kind, index, cand) ==
    [kind |-> kind, index |-> index, resume_file |-> cand.resume_file,
     total_score |-> cand.total_score]
NoCand == [resume_file |-> 0, total_score |-> 0]

\* lines 67-72: the groups, in the order in which their vacancy is first seen
RECURSIVE Grouped(_, _)
Grouped(items, acc) ==
    IF items = <<>> THEN acc
    ELSE LET item == Head(items)
             at == {g \in 1..Len(acc) : acc[g].vacancy = item.vacancy_file}
         IN  Grouped(Tail(items),
                 IF at = {}
                 THEN Append(acc, [vacancy |-> item.vacancy_file, cands |-> <<item>>])
                 ELSE [acc EXCEPT ![CHOOSE g \in at : TRUE].cands = Append(@, item)])

\* lines 138-145: list.sort(key=total_score, reverse=True), which keeps the
\* order of candidates with equal scores
RECURSIVE SortByScore(_)
SortByScore(cands) ==
    IF cands = <<>> THEN <<>>
    ELSE LET best == CHOOSE i \in 1..Len(cands) :
                         /\ \A j \in 1..Len(cands) : cands[j].total_score <= cands[i].total_score
                         /\ \A j \in 1..(i - 1) : cands[j].total_score < cands[i].total_score
         IN  <<cands[best]>>
             \o SortByScore(SubSeq(cands, 1, best - 1) \o SubSeq(cands, best + 1, Len(cands)))

\* lines 75-128: the heading of a candidate with its number, the lines about
\* it, the rule that ends it
FormatCandidate(index, cand) ==
    <<Line("candidate", index, cand), Line("details", 0, cand), Line("rule", 0, NoCand)>>

\* a numbering of the outsiders that starts again at one
RankFromOne(n, kept, i) == i

\* line 168: rank = len(candidates) - len(bottom3) + i
Rank(n, kept, i) == n - kept + i

\* lines 153-154 and 166-169: the candidates of a list from the i-th on,
\* each with its number
RECURSIVE FormatAll(_, _, _)
FormatAll(list, numbers, i) ==
    IF i > Len(list) THEN <<>>
    ELSE FormatCandidate(numbers[i], list[i]) \o FormatAll(list, numbers, i + 1)

\* lines 132-175: the lines of one group
GroupLines(group) ==
    LET sorted == SortByScore(group.cands)
        n == Len(sorted)
        top3 == SubSeq(sorted, 1, IF n < 3 THEN n ELSE 3)
        last3 == SubSeq(sorted, IF n > 3 THEN n - 2 ELSE 1, n)
        bottom3 == SelectSeq(last3, LAMBDA c : \A t \in 1..Len(top3) : top3[t] # c)
        own == [i \in 1..Len(top3) |-> i]
        rank == [i \in 1..Len(bottom3) |-> Rank(n, Len(bottom3), i)]
    IN  <<Line("vacancy", 0, NoCand), Line("count", n, NoCand), Line("blank", 0, NoCand)>>
        \o <<Line("top", 0, NoCand)>>
        \o FormatAll(top3, own, 1)
        \o <<Line("blank", 0, NoCand)>>
        \o (IF n > 3
            THEN <<Line("bottom", 0, NoCand)>>
                 \o (IF bottom3 # <<>> THEN FormatAll(bottom3, rank, 1)
                     ELSE <<Line("all_in_top", 0, NoCand)>>)
            ELSE <<>>)
        \o <<Line("blank", 0, NoCand), Line("stars", 0, NoCand), Line("blank", 0, NoCand)>>

VARIABLES
    rp_results,    \* the results generate_markdown_report is given
    rp_pc,         \* where it stands: group, build, returned
    grouped,       \* the groups, by vacancy
    rp_done,       \* how many groups are in the report
    report_lines   \* the lines of the report

rpVars == <<rp_results, rp_pc, grouped, rp_done, report_lines>>

RpIdle ==
    /\ rp_results = <<>>
    /\ rp_pc = "idle"
    /\ grouped = <<>>
    /\ rp_done = 0
    /\ report_lines = <<>>

RpInit ==
    /\ \E r \in ReportResults : rp_results = [i \in DOMAIN r |-> Result(r, i)]
    /\ rp_pc = "group"
    /\ grouped = <<>>
    /\ rp_done = 0
    /\ report_lines = <<>>

\* lines 60-72
RpGroup ==
    /\ rp_pc = "group"
    /\ report_lines' = <<Line("title", 0, NoCand), Line("blank", 0, NoCand)>>
    /\ grouped' = Grouped(rp_results, <<>>)
    /\ rp_pc' = "build"
    /\ UNCHANGED <<rp_results, rp_done>>

\* lines 131-175: one group
RpVacancy ==
    /\ rp_pc = "build"
    /\ rp_done < Len(grouped)
    /\ report_lines' = report_lines \o GroupLines(grouped[rp_done + 1])
    /\ rp_done' = rp_done + 1
    /\ UNCHANGED <<rp_results, rp_pc, grouped>>

\* line 177
RpReturn ==
    /\ rp_pc = "build"
    /\ rp_done = Len(grouped)
    /\ rp_pc' = "returned"
    /\ UNCHANGED <<rp_results, grouped, rp_done, report_lines>>

RpNext == RpGroup \/ RpVacancy \/ RpReturn

(***************************************************************************)
(* The specifications.  Spec runs one of the two parsers on one input,     *)
(* SpecClean runs _clean_soup on one tree, SpecResume the experience and   *)
(* education sections of _parse_resume on one resume, SpecVacancy the      *)
(* conditions section of _parse_vacancy on one vacancy, SpecShared several *)
(* parse calls at once on one parser instance, SpecLlm one call of         *)
(* get_llm_analysis, SpecBatch the tasks of one process_batch_async,       *)
(* SpecFinalize _finalize_text on one text and again on its result,        *)
(* SpecReport generate_markdown_report on the results of one batch.  The   *)
(* variables of what does not run stay idle.                               *)
(***************************************************************************)

vars == <<hhVars, mhVars, clVars, rsVars, vcVars, shVars, anVars, ftVars, rpVars>>

HHIdle ==
    /\ content = Absent
    /\ hh_pc = "idle"
    /\ html_content = <<>>
    /\ result = Absent

MhIdle ==
    /\ file = Absent
    /\ mh_pc = "idle"
    /\ html_bytes = <<>>
    /\ candidates = <<>>
    /\ attempts = <<>>
    /\ detected = "unset"
    /\ html_text = <<>>
    /\ mh_soup = Absent
    /\ mh_result = Absent

ClIdle ==
    /\ tree = <<>>
    /\ soup = SoupOf(<<>>)
    /\ cleanings = 0

RsIdle ==
    /\ rs_soup = <<>>
    /\ rs_pc = "idle"
    /\ rs_data = Absent

VcIdle ==
    /\ vc_soup = <<>>
    /\ vc_pc = "idle"
    /\ vc_container = NoNode
    /\ vc_data = Absent

ShIdle ==
    /\ sh_parser = "idle"
    /\ sh_self = Absent
    /\ sh_input = <<>>
    /\ sh_pc = <<>>
    /\ sh_local = <<>>
    /\ sh_result = <<>>

AnIdle == semaphore = MAX_CONCURRENT_REQUESTS /\ LlmIdle /\ BaIdle

Init ==
    /\ \/ HHInit /\ MhIdle
       \/ MhInit /\ HHIdle
    /\ ClIdle /\ RsIdle /\ VcIdle /\ ShIdle /\ AnIdle /\ FtIdle /\ RpIdle

Next ==
    \/ HHNext /\ UNCHANGED <<mhVars, clVars, rsVars, vcVars, shVars, anVars, ftVars, rpVars>>
    \/ MhNext /\ UNCHANGED <<hhVars, clVars, rsVars, vcVars, shVars, anVars, ftVars, rpVars>>

Spec == Init /\ [][Next]_vars

InitClean == ClInit /\ HHIdle /\ MhIdle /\ RsIdle /\ VcIdle /\ ShIdle /\ AnIdle /\ FtIdle /\ RpIdle

NextClean == ClNext /\ UNCHANGED <<hhVars, mhVars, rsVars, vcVars, shVars, anVars, ftVars, rpVars>>

SpecClean == InitClean /\ [][NextClean]_vars

InitResume == RsInit /\ HHIdle /\ MhIdle /\ ClIdle /\ VcIdle /\ ShIdle /\ AnIdle /\ FtIdle /\ RpIdle

NextResume == RsNext /\ UNCHANGED <<hhVars, mhVars, clVars, vcVars, shVars, anVars, ftVars, rpVars>>

SpecResume == InitResume /\ [][NextResume]_vars

InitVacancy == VcInit /\ HHIdle /\ MhIdle /\ ClIdle /\ RsIdle /\ ShIdle /\ AnIdle /\ FtIdle /\ RpIdle

NextVacancy == VcNext /\ UNCHANGED <<hhVars, mhVars, clVars, rsVars, shVars, anVars, ftVars, rpVars>>

SpecVacancy == InitVacancy /\ [][NextVacancy]_vars

InitShared == ShInit /\ HHIdle /\ MhIdle /\ ClIdle /\ RsIdle /\ VcIdle /\ AnIdle /\ FtIdle /\ RpIdle

NextShared == ShNext /\ UNCHANGED <<hhVars, mhVars, clVars, rsVars, vcVars, anVars, ftVars, rpVars>>

SpecShared == InitShared /\ [][NextShared]_vars

InitLlm == LlmInit /\ HHIdle /\ MhIdle /\ ClIdle /\ RsIdle /\ VcIdle /\ ShIdle /\ FtIdle /\ RpIdle

NextLlm == LlmNext /\ UNCHANGED <<hhVars, mhVars, clVars, rsVars, vcVars, shVars, ftVars, rpVars>>

SpecLlm == InitLlm /\ [][NextLlm]_vars

InitBatch == BaInit /\ HHIdle /\ MhIdle /\ ClIdle /\ RsIdle /\ VcIdle /\ ShIdle /\ FtIdle /\ RpIdle

NextBatch == BaNext /\ UNCHANGED <<hhVars, mhVars, clVars, rsVars, vcVars, shVars, ftVars, rpVars>>

SpecBatch == InitBatch /\ [][NextBatch]_vars

InitFinalize == FtInit /\ HHIdle /\ MhIdle /\ ClIdle /\ RsIdle /\ VcIdle /\ ShIdle /\ AnIdle /\ RpIdle

NextFinalize == FtNext /\ UNCHANGED <<hhVars, mhVars, clVars, rsVars, vcVars, shVars, anVars, rpVars>>

SpecFinalize == InitFinalize /\ [][NextFinalize]_vars

InitReport == RpInit /\ HHIdle /\ MhIdle /\ ClIdle /\ RsIdle /\ VcIdle /\ ShIdle /\ AnIdle /\ FtIdle

NextReport == RpNext /\ UNCHANGED <<hhVars, mhVars, clVars, rsVars, vcVars, shVars, anVars, ftVars>>

SpecReport == InitReport /\ [][NextReport]_vars

\* every await of the call comes back: the prompt is read, the request is
\* answered or raises, the sleep ends
SpecLlmFair == SpecLlm /\ WF_vars(NextLlm)

(***************************************************************************)
(* The signature elements of the fields: what _parse_resume and            *)
(* _parse_vacancy look for before they assign a field.                     *)
(***************************************************************************)

Has(doc, sel) == Find(doc, Root, sel) # NoNode

ResumeSigns(doc) ==
    [name |-> Has(doc, ByQa("bloko-header-1")),
     title |-> Has(doc, ByQa("resume-block-title-position")),
     salary |-> Has(doc, ByQa("resume-block-salary")),
     gender |-> Has(doc, ByQa("resume-personal-gender")),
     age |-> Has(doc, ByQa("resume-personal-age")),
     birth_date |-> Has(doc, ByQa("resume-personal-birthday")),
     area |-> Has(doc, ByQa("resume-personal-address")),
     relocation |-> Has(doc, ByQa("resume-personal-address")),
     metro |-> Has(doc, ByQa("resume-personal-metro")) \/ Has(doc, ByClass("metro-station")),
     specializations |-> Has(doc, ByQa("resume-block-specialization-category")),
     employment_modes |-> Has(doc, ByQa("resume-block-specialization-category")),
     experience_total |-> Has(doc, ByClass("resume-block__title-text_sub")),
     experience_items |-> Has(doc, ByQa("resume-block-experience")),
     education_items |-> Has(doc, ByQa("resume-block-education")),
     language_items |-> Has(doc, ByQa("resume-block-languages")),
     skills |-> Has(doc, ByQa("skills-table")) \/ FindHeading(doc, WordSkills) # NoNode,
     driver_experience |-> Has(doc, ByQa("resume-block-driver-experience")),
     about |-> Has(doc, ByQa("resume-block-skills-content")),
     citizenship |-> Has(doc, ByQa("resume-block-additional"))]

VacancySigns(doc) ==
    [title |-> Has(doc, ByQa("vacancy-title")) \/ Has(doc, ByQa("title")),
     salary |-> Has(doc, ByQa("vacancy-salary")),
     experience |-> Has(doc, ByQa("vacancy-experience")),
     schedule |-> Has(doc, ByQa("vacancy-experience")),
     description |-> Has(doc, ByQa("vacancy-description")),
     skills |-> FindHeading(doc, WordKeySkills) # NoNode,
     company |-> Has(doc, ByQa("vacancy-company-name")) \/ Has(doc, ByName("title")),
     address |-> Has(doc, ByQa("vacancy-view-location"))
                 \/ Has(doc, ByClass("vacancy-creation-time-redesigned"))]

(***************************************************************************)
(* C1                                                                      *)
(***************************************************************************)

\* C1: whatever the input, the record HHParser.parse returns has exactly the
\* keys of a resume record or exactly the keys of a vacancy record, none
\* missing and none added, and every field whose signature element the
\* markup lacks holds its default (the empty string and the empty list are
\* both the empty sequence here).
C1_RecordKeys ==
    hh_pc = "returned" =>
        LET resume == result.type = "resume"
            keys == IF resume THEN ResumeKeys ELSE VacancyKeys
            signs == IF resume THEN ResumeSigns(html_content)
                     ELSE VacancySigns(html_content)
        IN  /\ result.type \in {"resume", "vacancy"}
            /\ DOMAIN result = keys
            /\ \A f \in keys \ {"type"} : ~signs[f] => result[f] = <<>>

\* a resume was returned with one field extracted while the marker of the
\* conditionally assigned birth date is not in the markup
C1_Witness ==
    /\ hh_pc = "returned"
    /\ result.type = "resume"
    /\ result.title # <<>>
    /\ ~Has(html_content, ByQa("resume-personal-birthday"))
    /\ result.birth_date = <<>>

(***************************************************************************)
(* C2                                                                      *)
(***************************************************************************)

Engineer == <<69, 110, 103, 105, 110, 101, 101, 114>>

\* the parts of a message, the message itself included, that are text/html leaves
HtmlLeaves(msg) ==
    LET parts == Walk(msg)
    IN  {i \in 1..Len(parts) : parts[i].ctype = "text/html" /\ ~parts[i].multipart}

\* a MIME envelope with exactly one text/html part, its body the one element
\* <span data-qa="resume-block-title-position">Engineer</span>
EngineerEnvelope(c) ==
    /\ c.content_type
    /\ Cardinality(HtmlLeaves(c.msg)) = 1
    /\ \A i \in HtmlLeaves(c.msg) : Walk(c.msg)[i].payload = PayEngineer

\* the fields a marker (a data-qa value) has a part in
FieldsOf(q) ==
    CASE q = "bloko-header-1" -> {"name"}
      [] q = "resume-block-title-position" -> {"title"}
      [] q = "resume-block-salary" -> {"salary"}
      [] q = "resume-personal-gender" -> {"gender"}
      [] q = "resume-personal-age" -> {"age"}
      [] q = "resume-personal-birthday" -> {"birth_date"}
      [] q = "resume-personal-address" -> {"area", "relocation"}
      [] q = "resume-personal-metro" -> {"metro"}
      [] q = "resume-block-specialization-category" -> {"employment_modes", "specializations"}
      [] q = "resume-block-position-specialization" -> {"specializations"}
      [] q \in {"resume-block-experience", "resume-block-experience-employer",
                "resume-block-experience-position",
                "resume-block-experience-description"} -> {"experience_items"}
      [] q \in {"resume-block-education", "resume-block-education-name",
                "resume-block-education-organization"} -> {"education_items"}
      [] q \in {"skills-table", "bloko-tag__text", "skills-element"} -> {"skills"}
      [] q \in {"resume-block-languages", "resume-block-language-item"} -> {"language_items"}
      [] q = "resume-block-driver-experience" -> {"driver_experience"}
      [] q = "resume-block-skills-content" -> {"about"}
      [] q = "resume-block-additional" -> {"citizenship"}
      [] q \in {"vacancy-title", "title"} -> {"title"}
      [] q = "vacancy-salary" -> {"salary"}
      [] q = "vacancy-experience" -> {"experience", "schedule"}
      [] q = "vacancy-description" -> {"description"}
      [] q = "vacancy-company-name" -> {"company"}
      [] q = "vacancy-view-location" -> {"address"}
      [] OTHER -> {}

\* the markers a document carries
MarkersOf(doc) == {doc[i].qa : i \in 1..Len(doc)} \ {""}

\* the document with a marker taken off every element that carries it
Unmark(doc, q) ==
    [i \in 1..Len(doc) |-> IF doc[i].qa = q THEN [doc[i] EXCEPT !.qa = ""] ELSE doc[i]]

\* the record of the kind parse returned, extracted from another document
ExtractAs(kind, doc) == IF kind = "resume" THEN ParseResume(doc) ELSE ParseVacancy(doc)

C3_NoEscape ==
    /\ mh_pc # "escaped"
    /\ mh_pc \in {"idle", "start", "select", "try", "detect", "last", "decoded",
                  "render", "returned"}
    /\ mh_pc = "try" => candidates # <<>>
    /\ mh_pc = "returned" => mh_result = Absent \/ DOMAIN mh_result = {"kind", "soup"}

\* bytes that no candidate decodes went down the whole chain and the call
\* returned None
C3_Witness ==
    /\ mh_pc = "returned"
    /\ mh_result = Absent
    /\ attempts # <<>>
    /\ attempts[Len(attempts)] = "utf-8/ignore"

(***************************************************************************)
(* C4                                                                      *)
(***************************************************************************)

\* the input carries an envelope marker, yet no text/html part of the message
\* (the message itself being the first of them) has a payload
NoPayload(c) ==
    /\ c.mime_version \/ c.content_type
    /\ \A i \in HtmlLeaves(c.msg) : Walk(c.msg)[i].payload = <<>>

\* C4 as stated: when unpacking yields no payload, HHParser.parse returns
\* absent instead of a record.
C4_AbsentWhenNoPayload ==
    hh_pc = "returned" /\ NoPayload(content) => result = Absent

\* C4, amended: when unpacking yields no payload, the input text itself is
\* handed on as the markup, and parse returns the record extracted from it,
\* never absent.
C4_ContentWhenNoPayload ==
    hh_pc # "idle" /\ NoPayload(content) =>
        /\ hh_pc \in {"extracted", "vacancy", "resume", "returned"} =>
               html_content = content.body
        /\ hh_pc = "returned" =>
               /\ result # Absent
               /\ result = ExtractAs(result.type, content.body)

\* an envelope without a payload was parsed as markup and a field came out
C4_Witness ==
    /\ hh_pc = "returned"
    /\ NoPayload(content)
    /\ content.content_type
    /\ result.type = "resume"
    /\ result.salary # <<>>

(***************************************************************************)
(* C5                                                                      *)
(***************************************************************************)

\* the text of the first <title> element of the page contains "вакансия",
\* whatever the case of its letters
TitleSignal(doc) ==
    \E i \in 1..Len(doc) :
        /\ doc[i].name = "title"
        /\ \A j \in 1..(i - 1) : doc[j].name # "title"
        /\ Contains(Lower(GetTextRaw(doc, i)), WordVacancy)

\* an element carries a vacancy title marker (vacancy-title, or title on a
\* branded page)
MarkerSignal(doc) ==
    \E i \in 1..Len(doc) : doc[i].name # "#text" /\ doc[i].qa \in {"vacancy-title", "title"}

\* C5: HHParser.parse takes the document for a vacancy exactly when the page
\* title contains the word "вакансия" in any case or an element with the
\* vacancy title marker exists, and for a resume in every other case.
C5_TwoSignalOr ==
    /\ hh_pc \in {"vacancy", "resume"} =>
           (hh_pc = "vacancy" <=> TitleSignal(html_content) \/ MarkerSignal(html_content))
    /\ hh_pc = "returned" =>
           /\ result.type = "vacancy"
                  <=> TitleSignal(html_content) \/ MarkerSignal(html_content)
           /\ result.type = "resume"
                  <=> ~TitleSignal(html_content) /\ ~MarkerSignal(html_content)

\* a vacancy by its marker alone, the title giving no signal
C5_Witness ==
    /\ hh_pc = "returned"
    /\ result.type = "vacancy"
    /\ MarkerSignal(html_content)
    /\ ~TitleSignal(html_content)

(***************************************************************************)
(* C6                                                                      *)
(***************************************************************************)

\* the payload of the i-th part of a message in depth-first order
PayloadAt(msg, i) == Walk(msg)[i].payload

\* the text/html parts that have a non-empty payload
WithPayload(msg) == {i \in HtmlLeaves(msg) : PayloadAt(msg, i) # <<>>}

\* C6 as stated: with an envelope marker, both unpackers hand on the payload
\* of the first text/html part in depth-first order; without any marker
\* HHParser hands on the input unchanged.
C6_FirstHtmlPart ==
    /\ hh_pc \in {"extracted", "vacancy", "resume", "returned"} =>
           IF ~content.mime_version /\ ~content.content_type
           THEN html_content = content.body
           ELSE HtmlLeaves(content.msg) # {} =>
                    html_content =
                        HHDecode(PayloadAt(content.msg, Min(HtmlLeaves(content.msg))))
    /\ mh_pc \in {"try", "detect", "last", "decoded", "render"} =>
           html_bytes = PayloadAt(file.msg, Min(HtmlLeaves(file.msg)))

\* C6, amended: with an envelope marker, both unpackers hand on the payload
\* of the first text/html part, in depth-first order with the envelope
\* first, whose payload is not empty; when there is none, HHParser hands on
\* the input itself and MHTMLParser returns None.  Without any marker
\* HHParser hands on the input unchanged.
C6_FirstHtmlPartWithPayload ==
    /\ hh_pc \in {"extracted", "vacancy", "resume", "returned"} =>
           IF ~content.mime_version /\ ~content.content_type
           THEN html_content = content.body
           ELSE IF WithPayload(content.msg) # {}
           THEN html_content =
                    HHDecode(PayloadAt(content.msg, Min(WithPayload(content.msg))))
           ELSE html_content = content.body
    /\ mh_pc \in {"try", "detect", "last", "decoded", "render", "returned"} /\ file.readable =>
           IF WithPayload(file.msg) # {}
           THEN html_bytes = PayloadAt(file.msg, Min(WithPayload(file.msg)))
           ELSE mh_pc = "returned" /\ mh_result = Absent /\ attempts = <<>>

\* the first text/html part was empty and the second one was handed on
C6_Witness ==
    /\ hh_pc = "returned"
    /\ content.content_type
    /\ Cardinality(HtmlLeaves(content.msg)) = 2
    /\ PayloadAt(content.msg, Min(HtmlLeaves(content.msg))) = <<>>
    /\ WithPayload(content.msg) # {}
    /\ result.title = Engineer

(***************************************************************************)
(* C7                                                                      *)
(***************************************************************************)

\* the charset the header of the selected part declares
Declared == SelectHtml(file.msg).charset

\* the order of the attempts: the declared charset if any, UTF-8,
\* windows-1251, what was detected if anything, then the last resort
ExpectedOrder ==
    (IF Declared # Null THEN <<Declared>> ELSE <<>>)
    \o <<"utf-8", "windows-1251">>
    \o (IF detected \in {"unset", Null} THEN <<>> ELSE <<detected>>)
    \o <<"utf-8/ignore">>

IsPrefix(p, q) == Len(p) <= Len(q) /\ p = SubSeq(q, 1, Len(p))

\* whether an attempt at the selected bytes raises
Raises(codec) ==
    codec # "utf-8/ignore" /\ DecodeExc(codec, html_bytes) # "none"

\* the chain of attempts, for a last resort that puts onError in the place of
\* every invalid byte: the attempts are made in the expected order, every
\* attempt before the last one made raised, and the text is that of the
\* first attempt that does not raise, nothing being tried after it
DecodeChain(onError) ==
    mh_pc \in {"try", "detect", "last", "decoded", "render"} =>
        /\ IsPrefix(attempts, ExpectedOrder)
        /\ \A k \in 1..(Len(attempts) - 1) : Raises(attempts[k])
        /\ mh_pc \in {"try", "detect", "last"} =>
               \A k \in 1..Len(attempts) : Raises(attempts[k])
        /\ mh_pc = "last" => Len(attempts) = Len(ExpectedOrder) - 1
        /\ mh_pc \in {"decoded", "render"} =>
               /\ attempts # <<>>
               /\ ~Raises(attempts[Len(attempts)])
               /\ html_text =
                      IF attempts[Len(attempts)] = "utf-8/ignore"
                      THEN TreeUtf8DecodeWith(html_bytes, onError)
                      ELSE DecodeText(attempts[Len(attempts)], html_bytes)

\* C7 as stated: the attempts are made in the order declared charset (if
\* any), UTF-8, windows-1251, detected encoding, and last UTF-8 with every
\* invalid byte substituted; the text is that of the first attempt that does
\* not raise and nothing is tried after it.
C7_LastResortSubstitutes == DecodeChain(Replacement)

\* C7, amended: the attempts are made in the order declared charset (if
\* any), UTF-8, windows-1251, detected encoding (if any), and last UTF-8
\* with the invalid bytes dropped; every attempt before the last one made
\* raised, the text is that of the first attempt that does not raise, and
\* nothing is tried after it.  The last resort cannot raise, so the chain
\* never ends without a text.
C7_DecodeOrder == DecodeChain(<<>>)

\* all five attempts were made and the last resort dropped the invalid byte
C7_Witness ==
    /\ mh_pc = "decoded"
    /\ Len(attempts) = 5
    /\ html_bytes = PayBad
    /\ html_text = FragTitleA

(***************************************************************************)
(* C8                                                                      *)
(***************************************************************************)

\* the header says UTF-8, the bytes are windows-1251 and not UTF-8
Mismatch(part) ==
    /\ part.charset = "utf-8"
    /\ ~TreeUtf8Valid(part.payload)
    /\ \A b \in Strings(part.payload) : Cp1251Valid(b)

HasReplacement(doc) ==
    \E i \in 1..Len(doc) : \E k \in 1..Len(doc[i].str) : doc[i].str[k] = Replacement[1]

\* C8 as stated: for a part declared UTF-8 whose bytes are windows-1251,
\* both unpackers hand on the text decoded as windows-1251.
C8_MatchingEncoding ==
    /\ hh_pc \in {"extracted", "vacancy", "resume", "returned"}
       /\ content.content_type /\ WithPayload(content.msg) # {}
       /\ Mismatch(Walk(content.msg)[Min(WithPayload(content.msg))]) =>
           html_content =
               TreeCp1251Decode(PayloadAt(content.msg, Min(WithPayload(content.msg))))
    /\ mh_pc \in {"decoded", "render"}
       /\ Mismatch(Walk(file.msg)[Min(WithPayload(file.msg))]) =>
           html_text = TreeCp1251Decode(html_bytes)

\* C8, amended: for a part declared UTF-8 whose bytes are windows-1251,
\* MHTMLParser reaches windows-1251 after UTF-8 raised twice and hands on the
\* text decoded as windows-1251, not None and without substituted
\* characters; HHParser, which reads no declared charset and tries UTF-8
\* only, hands on the text with U+FFFD in the place of the invalid bytes.
C8_FallbackChain ==
    /\ mh_pc \in {"try", "detect", "last", "decoded", "render", "returned"}
       /\ file.readable /\ WithPayload(file.msg) # {}
       /\ Mismatch(Walk(file.msg)[Min(WithPayload(file.msg))]) =>
           /\ mh_pc \notin {"detect", "last"}
           /\ mh_pc = "try" => IsPrefix(attempts, <<"utf-8", "utf-8">>)
           /\ mh_pc \in {"decoded", "render", "returned"} =>
                  /\ attempts = <<"utf-8", "utf-8", "windows-1251">>
                  /\ html_text = TreeCp1251Decode(html_bytes)
                  /\ ~HasReplacement(html_text)
    /\ hh_pc \in {"extracted", "vacancy", "resume", "returned"}
       /\ content.content_type /\ WithPayload(content.msg) # {}
       /\ Mismatch(Walk(content.msg)[Min(WithPayload(content.msg))]) =>
           /\ html_content =
                  TreeUtf8DecodeWith(
                      PayloadAt(content.msg, Min(WithPayload(content.msg))), Replacement)
           /\ HasReplacement(html_content)

\* MHTMLParser recovered the windows-1251 text of a part declared UTF-8
C8_Witness ==
    /\ mh_pc = "decoded"
    /\ Declared = "utf-8"
    /\ html_bytes = PayCp1251
    /\ html_text = FragTitleCyr

(***************************************************************************)
(* C9 and C10                                                              *)
(***************************************************************************)

\* a node the cleaning is after: a removed tag kind, a landmark, or an element
\* one of the boilerplate selectors matches
Matched(n) ==
    \/ n.name \in RemovedTags
    \/ n.name \in Landmarks
    \/ n.name # "#text" /\ (n.cls \cap GarbageClasses # {} \/ n.qa \in GarbageQa)

\* the nodes of the parsed tree that are neither matched nor below a matched node
Unaffected ==
    {i \in 1..Len(tree) :
        /\ ~Matched(tree[i])
        /\ \A a \in 1..Len(tree) : IsAncestor(tree, a, i) => ~Matched(tree[a])}

\* C9: cleaning is idempotent: after one cleaning no node of a removed tag
\* kind, no landmark and no element matching a boilerplate selector is left
\* in the tree, and cleaning again removes nothing, the tree after the
\* second cleaning being the tree after the first.
C9_CleanIdempotent ==
    cleanings >= 1 =>
        /\ \A i \in Nodes(soup) : ~Matched(soup.node[i])
        /\ Nodes(CleanSoup(soup)) = Nodes(soup)
        /\ soup = CleanSoup(SoupOf(tree))

\* a tree was cleaned twice, the first cleaning having removed some of its
\* nodes and kept others
C9_Witness ==
    /\ cleanings = 2
    /\ Nodes(soup) # {}
    /\ Nodes(soup) # 1..Len(tree)

\* C10: cleaning removes matched nodes and their subtrees only: every node
\* that is neither matched nor below a matched node is still in the tree,
\* under the parent it had and with the text it had, and the children every
\* surviving node has left are in the order they were in.
C10_CleanFrame ==
    cleanings >= 1 =>
        /\ Nodes(soup) = Unaffected
        /\ \A i \in Unaffected :
               /\ soup.node[i].name = tree[i].name
               /\ soup.node[i].str = tree[i].str
               /\ soup.parent[i] = tree[i].parent
        /\ \A p \in Unaffected \cup {Root} :
               soup.contents[p] =
                   SelectSeq(SoupOf(tree).contents[p], LAMBDA c : c \in Unaffected)

\* a matched node was removed from between two siblings that stayed, the
\* text among them
C10_Witness ==
    /\ cleanings >= 1
    /\ Len(tree) = 3
    /\ soup.contents[Root] = <<1, 3>>
    /\ tree[3].name = "#text"
    /\ soup.node[3].str = tree[3].str

(***************************************************************************)
(* C11                                                                     *)
(***************************************************************************)

\* the blocks of the first section carrying the marker that have a wide column
BlocksOf(doc, qa) ==
    LET section == Find(doc, Root, ByQa(qa))
    IN  {b \in FindAllSet(doc, section, ByClass("resume-block-item-gap")) :
            Find(doc, b, ByClass("bloko-column_l-10")) # NoNode}

\* the (year, name, details) triple an education block shows
TripleOf(doc, b) ==
    <<ExtractText(doc, Find(doc, b, ByClass("bloko-column_l-2"))),
      ExtractText(doc, Find(doc, Find(doc, b, ByClass("bloko-column_l-10")),
                            ByQa("resume-block-education-name"))),
      ExtractText(doc, Find(doc, Find(doc, b, ByClass("bloko-column_l-10")),
                            ByQa("resume-block-education-organization")))>>

\* the first block that shows a triple
FirstSeen(doc, triple) ==
    Min({b \in BlocksOf(doc, "resume-block-education") : TripleOf(doc, b) = triple})

\* C11: whatever the number and arrangement of the education blocks,
\* education_items never holds two entries with the same (year, name,
\* details) triple, it holds an entry for every triple a block shows, and the
\* entries stand in the order in which their triples are first seen in the
\* markup; so two identical blocks yield exactly one entry.
C11_EducationDistinct ==
    rs_pc = "returned" =>
        LET items == rs_data["education_items"]
            key(k) == <<items[k].year, items[k].name, items[k].details>>
            blocks == BlocksOf(rs_soup, "resume-block-education")
        IN  /\ \A i, j \in 1..Len(items) : i # j => key(i) # key(j)
            /\ {key(k) : k \in 1..Len(items)} = {TripleOf(rs_soup, b) : b \in blocks}
            /\ \A i, j \in 1..Len(items) :
                   i < j => FirstSeen(rs_soup, key(i)) < FirstSeen(rs_soup, key(j))

\* a resume whose blocks repeat a triple around another one has been read:
\* three blocks, two entries
C11_Witness ==
    /\ rs_pc = "returned"
    /\ LET blocks == BlocksOf(rs_soup, "resume-block-education")
       IN  /\ \E a, b, c \in blocks :
                 /\ a < b /\ b < c
                 /\ TripleOf(rs_soup, a) = TripleOf(rs_soup, c)
                 /\ TripleOf(rs_soup, a) # TripleOf(rs_soup, b)
           /\ Len(rs_data["education_items"]) = 2

(***************************************************************************)
(* C12                                                                     *)
(***************************************************************************)

\* the span/p/div elements of the chosen scope that hold no p/div
LeafLike(doc, scope) ==
    {t \in Descendants(doc, scope) :
        /\ doc[t].name \in {"span", "p", "div"}
        /\ \A d \in Descendants(doc, t) : doc[d].name \notin {"p", "div"}}

\* what a fragment's text is entered as: the text without "Опыт работы:"
EntryOf(doc, t) == Strip(Remove(ExtractText(doc, t), PrefixExperience))

\* whether the text, lower-cased, contains one of the words
HasWord(text, words) == \E w \in words : Contains(Lower(text), w)

\* C12: every schedule entry is taken from a fragment whose flattened text
\* is not empty and not longer than 100 characters; when the chosen scope
\* holds a schedule fragment of 90 characters (with a schedule keyword) and
\* a paragraph of 500 characters, the schedule list holds the former and not
\* the latter.
C12_FragmentLength ==
    (vc_pc = "returned" /\ vc_container # NoNode) =>
        LET schedule == vc_data["schedule"]
            frags == LeafLike(vc_soup, vc_container)
            text(t) == ExtractText(vc_soup, t)
        IN  /\ \A k \in 1..Len(schedule) :
                   \E t \in frags : /\ EntryOf(vc_soup, t) = schedule[k]
                                    /\ Len(text(t)) > 0
                                    /\ Len(text(t)) <= 100
            /\ \A a, b \in frags :
                   (/\ Len(text(a)) = 90
                    /\ HasWord(text(a), {WordEmployment, WordSchedule, WordFormat, WordHours})
                    /\ Len(text(b)) = 500)
                   => /\ \E k \in 1..Len(schedule) : schedule[k] = text(a)
                      /\ \A k \in 1..Len(schedule) : schedule[k] # text(b)

\* a vacancy whose scope holds both fragments has been read, and its schedule
\* list holds the one of 90 characters
C12_Witness ==
    /\ vc_pc = "returned"
    /\ vc_container # NoNode
    /\ \E a, b \in LeafLike(vc_soup, vc_container) :
           /\ Len(ExtractText(vc_soup, a)) = 90
           /\ Len(ExtractText(vc_soup, b)) = 500
           /\ HasWord(ExtractText(vc_soup, b), {WordSchedule})
           /\ \E k \in 1..Len(vc_data["schedule"]) :
                  vc_data["schedule"][k] = ExtractText(vc_soup, a)

(***************************************************************************)
(* C13                                                                     *)
(***************************************************************************)

\* what parse returns for an input when it is the only call on its instance
Alone(parser, input) ==
    IF parser = "mh"
    THEN IF EmptyText(input) THEN Absent
         ELSE Rendered(CleanSoup(SoupOf(input)), StopPhrasesExact, SkipSections)
    ELSE LET html == ExtractHtmlFromMhtml(input)
         IN  IF IsVacancy(html) THEN ParseVacancy(html) ELSE ParseResume(html)

\* C13: parse calls on one parser instance, their steps interleaved in any
\* order, each return what the same call returns when it runs alone, and
\* no step changes what outlives the calls: the stop-phrase, skip-section
\* and selector catalogs of an MHTMLParser stay as __init__ set them, and
\* an HHParser has no attribute at all.
C13_Reentrant ==
    sh_parser # "idle" =>
        /\ sh_parser = "mh" => sh_self = MhSelf
        /\ sh_parser = "hh" => DOMAIN sh_self = {}
        /\ \A c \in Calls :
               sh_pc[c] = "returned" => sh_result[c] = Alone(sh_parser, sh_input[c])

\* a call on one document has returned its record while a call on another
\* document is between two of its steps on the same instance
C13_Witness ==
    /\ sh_parser # "idle"
    /\ \E c, d \in Calls :
           /\ sh_input[c] # sh_input[d]
           /\ sh_pc[c] = "returned" /\ sh_result[c] # Absent
           /\ sh_pc[d] \in {"soup", "clean", "extracted"}


(***************************************************************************)
(* C14: in one call of get_llm_analysis, an answer that is empty, not JSON *)
(* or not of the schema is the answer to the last request of the call, and *)
(* the call returns None; every request but the last was answered by a     *)
(* rate limit; the k-th sleep of the call (k from 0) lasts 5 * 2^k seconds *)
(* and follows a rate limit, and every request after the first follows a   *)
(* sleep.                                                                  *)
(***************************************************************************)
C14_RetryOnlyRateLimit ==
    LET n == Len(llm_log)
    IN  /\ \A i \in 1..n :
               llm_log[i] \in {"none", "empty", "malformed", "schema_invalid"}
               => i = n /\ llm_pc = "returned" /\ llm_result = "None"
        /\ \A i \in 1..(n - 1) : llm_log[i] \in {"RateLimitError", "APIError429"}
        /\ \A k \in 1..Len(llm_slept) :
               /\ llm_slept[k] = 5 * (2 ^ (k - 1))
               /\ k <= n
               /\ llm_log[k] \in {"RateLimitError", "APIError429"}
        /\ n - 1 <= Len(llm_slept)

\* two rate limits, waited out for 5 and 10 seconds, then a content that is
\* not of the schema: the call has returned None after its third request
C14_Witness ==
    /\ llm_pc = "returned"
    /\ llm_log = <<"RateLimitError", "APIError429", "schema_invalid">>
    /\ llm_slept = <<5, 10>>
    /\ llm_result = "None"


(***************************************************************************)
(* C15: whatever the number of tasks of a batch, at no moment are more     *)
(* than 5 of them inside "async with semaphore" of get_llm_analysis,       *)
(* awaiting the answer to a request or sleeping after a rate limit; so at  *)
(* most 5 requests are in flight.                                          *)
(***************************************************************************)
C15_AtMostFiveInside ==
    /\ Count(tasks, InsideStates) <= 5
    /\ Count(tasks, {St("request", k) : k \in 0..(max_retries - 1)}) <= 5

\* five tasks are inside, one of them sleeping after a rate limit, and a
\* sixth task waits for the semaphore
C15_Witness ==
    /\ Count(tasks, InsideStates) = 5
    /\ \E k \in 0..(max_retries - 1) : tasks[St("sleep", k)] > 0
    /\ tasks[St("waiting", 0)] > 0


(***************************************************************************)
(* C16                                                                     *)
(***************************************************************************)

\* every block of the first section carrying the marker
AllBlocksOf(doc, qa) ==
    FindAllSet(doc, Find(doc, Root, ByQa(qa)), ByClass("resume-block-item-gap"))

\* the i-th node of a set of nodes, in document order
NthOf(S, i) == CHOOSE b \in S : Cardinality({x \in S : x <= b}) = i

\* C16, as stated: once the experience section is read, experience_items has
\* as many items as the experience container has "item-gap" blocks.
C16_OnePerBlock ==
    rs_pc # "experience"
    => Len(rs_data["experience_items"])
           = Cardinality(AllBlocksOf(rs_soup, "resume-block-experience"))

\* C16, amended: once the experience section is read, experience_items has
\* exactly one item for each "item-gap" block of the experience container
\* that has a wide column (a block without one yields nothing), and the
\* items stand in the document order of their blocks: the i-th item shows
\* the period and the position of the i-th such block.
C16_OnePerBlockWithColumn ==
    rs_pc # "experience"
    => LET bs == BlocksOf(rs_soup, "resume-block-experience")
           items == rs_data["experience_items"]
       IN  /\ Len(items) = Cardinality(bs)
           /\ \A i \in 1..Len(items) :
                  LET b == NthOf(bs, i)
                  IN  /\ items[i].period
                             = ExtractText(rs_soup, Find(rs_soup, b, ByClass("bloko-column_l-2")))
                      /\ items[i].position
                             = ExtractText(rs_soup,
                                   Find(rs_soup, b, ByQa("resume-block-experience-position")))

\* a block without a wide column stands before a block with one: the
\* section has two blocks and yields one item, the second block's
C16_Witness ==
    /\ rs_pc # "experience"
    /\ LET all == AllBlocksOf(rs_soup, "resume-block-experience")
           bs == BlocksOf(rs_soup, "resume-block-experience")
       IN  /\ Cardinality(all) = 2
           /\ Cardinality(bs) = 1
           /\ \E a \in all \ bs : \A b \in bs : a < b
           /\ Len(rs_data["experience_items"]) = 1
           /\ rs_data["experience_items"][1].period # <<>>


(***************************************************************************)
(* C17                                                                     *)
(***************************************************************************)

\* the anchors below a node that carry an href that is neither an hh.ru nor
\* a javascript link
OutboundAnchors(doc, scope) ==
    {a \in Descendants(doc, scope) :
        /\ doc[a].name = "a"
        /\ doc[a].href # <<>>
        /\ ~Contains(doc[a].href[1], WordHhRu)
        /\ ~Contains(doc[a].href[1], WordJavascript)}

\* the anchors below a node whose visible text contains a dot
DottedAnchors(doc, scope) ==
    {a \in Descendants(doc, scope) :
        doc[a].name = "a" /\ Contains(ExtractText(doc, a), Dot)}

\* C17: once the experience section is read, the website of the item of a
\* block is the href of the first anchor of the block's wide column whose
\* href is neither an hh.ru nor a javascript link, whatever anchors stand
\* before it; without such an anchor it is the visible text of an anchor
\* that contains a dot; without that it is the empty string.
C17_FirstOutboundAnchor ==
    rs_pc # "experience"
    => LET bs == BlocksOf(rs_soup, "resume-block-experience")
           items == rs_data["experience_items"]
       IN  \A i \in 1..Len(items) :
               LET right_col == Find(rs_soup, NthOf(bs, i), ByClass("bloko-column_l-10"))
                   outbound == OutboundAnchors(rs_soup, right_col)
                   dotted == DottedAnchors(rs_soup, right_col)
               IN  IF outbound # {}
                   THEN items[i].website = rs_soup[Min(outbound)].href[1]
                   ELSE IF dotted # {}
                   THEN \E a \in dotted : items[i].website = ExtractText(rs_soup, a)
                   ELSE items[i].website = <<>>


(***************************************************************************)
(* C18: once the experience section is read, an item whose company (after  *)
(* the fallback to the bold text), position and description marker are all *)
(* empty has the flattened text of the whole wide column as description,   *)
(* and any other item has exactly the text of the description marker; so   *)
(* no item of a block whose wide column has text has company, position and *)
(* description all empty.                                                  *)
(***************************************************************************)
C18_DescriptionFallback ==
    rs_pc # "experience"
    => LET bs == BlocksOf(rs_soup, "resume-block-experience")
           items == rs_data["experience_items"]
       IN  \A i \in 1..Len(items) :
               LET right_col == Find(rs_soup, NthOf(bs, i), ByClass("bloko-column_l-10"))
                   marker == ExtractText(rs_soup,
                                 Find(rs_soup, right_col,
                                      ByQa("resume-block-experience-description")))
                   column == ExtractText(rs_soup, right_col)
               IN  /\ items[i].description
                          = IF items[i].company = <<>> /\ items[i].position = <<>>
                               /\ marker = <<>>
                            THEN column ELSE marker
                   /\ column # <<>>
                      => ~(items[i].company = <<>> /\ items[i].position = <<>>
                           /\ items[i].description = <<>>)

\* two items: one of a block with nothing but text in its wide column, whose
\* description is that text, and one whose company comes from the bold text
\* and whose description stays empty although the column has more text
C18_Witness ==
    /\ rs_pc # "experience"
    /\ LET bs == BlocksOf(rs_soup, "resume-block-experience")
           items == rs_data["experience_items"]
       IN  /\ Len(items) = 2
           /\ items[1].company = <<>> /\ items[1].position = <<>>
           /\ items[1].description # <<>>
           /\ Find(rs_soup, NthOf(bs, 1),
                   ByQa("resume-block-experience-description")) = NoNode
           /\ items[2].company # <<>> /\ items[2].description = <<>>
           /\ Find(rs_soup, NthOf(bs, 2),
                   ByQa("resume-block-experience-employer")) = NoNode


(***************************************************************************)
(* C19                                                                     *)
(***************************************************************************)

\* the k-th ancestor of a node, NoNode above the document
RECURSIVE AncestorAt(_, _, _)
AncestorAt(doc, n, k) ==
    IF k = 0 THEN n
    ELSE IF n = Root \/ n = NoNode THEN NoNode
    ELSE AncestorAt(doc, doc[n].parent, k - 1)

\* the levels, of the three above the experience marker, that exist
WalkLevels(doc) ==
    {k \in 1..3 : AncestorAt(doc, Find(doc, Root, ByQa("vacancy-experience")), k) # NoNode}

LevelAt(doc, k) == AncestorAt(doc, Find(doc, Root, ByQa("vacancy-experience")), k)

\* the levels whose flattened text contains one of the four keywords
KeywordLevels(doc) ==
    {k \in WalkLevels(doc) :
        HasWord(ExtractText(doc, LevelAt(doc, k)),
                {WordEmployment, WordSchedule, WordFormat, WordHours})}

\* the p/div children of a node, and its p/div descendants
PDivChildren(doc, n) ==
    {j \in Descendants(doc, n) : doc[j].parent = n /\ doc[j].name \in {"p", "div"}}
PDivDescendants(doc, n) ==
    {j \in Descendants(doc, n) : doc[j].name \in {"p", "div"}}

\* what the walk selects when "several" is told by the given count
Selected(doc, several) ==
    IF KeywordLevels(doc) \cap several # {}
    THEN LevelAt(doc, Min(KeywordLevels(doc) \cap several))
    ELSE IF KeywordLevels(doc) # {}
    THEN LevelAt(doc, CHOOSE k \in KeywordLevels(doc) : \A j \in KeywordLevels(doc) : j <= k)
    ELSE NoNode

\* C19, as stated: the scope is the first of the three levels above the
\* marker with a keyword and more than one p/div child, else the last level
\* with a keyword, else none, and then schedule stays empty.
C19_ScopeByChildren ==
    (vc_pc \in {"collect", "returned"}
     /\ Find(vc_soup, Root, ByQa("vacancy-experience")) # NoNode)
    => /\ vc_container
              = Selected(vc_soup,
                    {k \in WalkLevels(vc_soup) :
                        Cardinality(PDivChildren(vc_soup, LevelAt(vc_soup, k))) > 1})
       /\ vc_container = NoNode => vc_data["schedule"] = <<>>

\* C19, amended: the scope is the first of the at most three levels above
\* the marker whose flattened text contains one of the four keywords and
\* below which, at any depth, stand more than one p/div; without such a
\* level it is the last of the three levels with a keyword; without a level
\* with a keyword there is no scope and schedule stays the empty list.
C19_ScopeByDescendants ==
    (vc_pc \in {"collect", "returned"}
     /\ Find(vc_soup, Root, ByQa("vacancy-experience")) # NoNode)
    => /\ vc_container
              = Selected(vc_soup,
                    {k \in WalkLevels(vc_soup) :
                        Cardinality(PDivDescendants(vc_soup, LevelAt(vc_soup, k))) > 1})
       /\ vc_container = NoNode => vc_data["schedule"] = <<>>

\* the walk has stopped at a level with a keyword that has one p/div child
\* and two p/div below it, although a level above it has a keyword too
C19_Witness ==
    /\ vc_pc = "returned"
    /\ \E k \in 1..2 :
           /\ vc_container = LevelAt(vc_soup, k)
           /\ Cardinality(PDivChildren(vc_soup, vc_container)) = 1
           /\ Cardinality(PDivDescendants(vc_soup, vc_container)) = 2
           /\ k + 1 \in KeywordLevels(vc_soup)


(***************************************************************************)
(* C20                                                                     *)
(***************************************************************************)

\* whether the schedule list of the vacancy read has no entry twice, and
\* every entry contains one of the words and is what a leaf-like fragment
\* of the scope, with one of the words in its text, is entered as
ScheduleAdmits(words) ==
    LET schedule == vc_data["schedule"]
    IN  /\ \A k \in 1..Len(schedule) :
               /\ HasWord(schedule[k], words)
               /\ \E t \in LeafLike(vc_soup, vc_container) :
                      /\ EntryOf(vc_soup, t) = schedule[k]
                      /\ HasWord(ExtractText(vc_soup, t), words)
        /\ \A i, j \in 1..Len(schedule) : i # j => schedule[i] # schedule[j]

\* C20, as stated: every schedule entry comes from a fragment with one of
\* the four keywords that select the scope, contains one of them, and no
\* entry appears twice.
C20_FourKeywords ==
    (vc_pc = "returned" /\ vc_container # NoNode)
    => ScheduleAdmits({WordEmployment, WordSchedule, WordFormat, WordHours})

\* C20, amended: every schedule entry comes from a leaf-like fragment of the
\* scope whose text contains one of the five keywords занятость, график,
\* формат, часы, рабочие, contains one of the five itself, differs from the
\* experience text, and no entry appears twice.
C20_FiveKeywords ==
    (vc_pc = "returned" /\ vc_container # NoNode)
    => /\ ScheduleAdmits({WordEmployment, WordSchedule, WordFormat, WordHours,
                          WordWorking})
       /\ \A k \in 1..Len(vc_data["schedule"]) :
              vc_data["schedule"][k] # vc_data["experience"]

\* the scope holds two fragments entered as the same text, which the list
\* holds once, and the list holds an entry with "рабочие" and none of the
\* four keywords of the scope
C20_Witness ==
    /\ vc_pc = "returned"
    /\ vc_container # NoNode
    /\ LET schedule == vc_data["schedule"]
       IN  /\ \E a, b \in LeafLike(vc_soup, vc_container) :
                  /\ a # b
                  /\ EntryOf(vc_soup, a) = EntryOf(vc_soup, b)
                  /\ ExtractText(vc_soup, a) # ExtractText(vc_soup, b)
                  /\ \E k \in 1..Len(schedule) : schedule[k] = EntryOf(vc_soup, a)
           /\ \E k \in 1..Len(schedule) :
                  /\ HasWord(schedule[k], {WordWorking})
                  /\ ~HasWord(schedule[k],
                              {WordEmployment, WordSchedule, WordFormat, WordHours})


(***************************************************************************)
(* C21: whatever fails while the pairs of a batch are analysed, an API     *)
(* error that is no rate limit included, process_batch_async does not      *)
(* raise: it returns, and what it returns are the results of all the pairs *)
(* that succeeded.                                                         *)
(***************************************************************************)
C21_FailureConfined ==
    /\ ba_pc # "raised"
    /\ ba_pc = "returned" => valid_results = tasks[St("analysis", 0)]


(***************************************************************************)
(* C22: every call of get_llm_analysis comes to an end, by returning or by *)
(* raising, and has then sent at most 5 requests; at no moment has it sent *)
(* a sixth; a call whose five requests were all answered by a rate limit   *)
(* ends by returning None.                                                 *)
(***************************************************************************)
C22_AtMostFiveRequests ==
    /\ [](Len(llm_log) <= 5)
    /\ <>(llm_pc \in {"returned", "raised"})
    /\ []((/\ llm_pc \in {"returned", "raised"}
           /\ Len(llm_log) = 5
           /\ \A i \in 1..5 : llm_log[i] \in {"RateLimitError", "APIError429"})
          => llm_pc = "returned" /\ llm_result = "None")

\* five requests, each answered by a rate limit and each followed by its
\* sleep, and the call has returned None
C22_Witness ==
    /\ llm_pc = "returned"
    /\ Len(llm_log) = 5
    /\ \A i \in 1..5 : llm_log[i] \in {"RateLimitError", "APIError429"}
    /\ llm_slept = <<5, 10, 20, 40, 80>>
    /\ llm_result = "None"


(***************************************************************************)
(* C23                                                                     *)
(***************************************************************************)

\* whether the nearest line of H at or before line i is a heading that names
\* a section to skip
NearestNamesSkip(i, H) ==
    \E j \in H : /\ j <= i
                 /\ \A x \in H : x <= i => x <= j
                 /\ IsSkipHeader(Strip(ft_lines[j]), SkipSections)

\* the heading lines of the text, and those of them that pass the filters
\* for blank lines, technical blobs, long lines and stop phrases
HeadingLines == {j \in 1..Len(ft_lines) : IsHeading(Strip(ft_lines[j]))}
PassingHeadingLines ==
    {j \in HeadingLines : LineFilter(Strip(ft_lines[j]), StopPhrasesExact) = "pass"}

\* C23, as stated: a line that no other filter drops is dropped as part of a
\* skipped section exactly when the nearest heading line at or before it in
\* the input contains a skip-section title.
C23_NearestHeading ==
    \A i \in 1..Len(ft_fate) :
        ft_fate[i] \in {"skipped", "kept"}
        => (ft_fate[i] = "skipped" <=> NearestNamesSkip(i, HeadingLines))

\* C23, amended: a line that no other filter drops is dropped as part of a
\* skipped section exactly when the nearest heading line at or before it,
\* among the heading lines that no other filter drops, contains a
\* skip-section title (whatever its case, runs of white space counting as
\* one space); so the first later such heading without a title ends the
\* skipped section, and it and the lines after it are kept.
C23_NearestPassingHeading ==
    \A i \in 1..Len(ft_fate) :
        ft_fate[i] \in {"skipped", "kept"}
        => (ft_fate[i] = "skipped" <=> NearestNamesSkip(i, PassingHeadingLines))

\* a text is read in which a heading with a stop phrase stands inside a
\* skipped section: the heading is dropped for its stop phrase, the line
\* after it is dropped with the section, and a later heading without a
\* title and the line after it are kept
C23_Witness ==
    /\ ft_pc = "returned"
    /\ \E a, h, b \in 1..Len(ft_fate) :
           /\ a < h /\ h < b
           /\ a \in PassingHeadingLines /\ ft_fate[a] = "skipped"
           /\ h \in HeadingLines /\ ft_fate[h] = "stop"
           /\ b \notin HeadingLines /\ ft_fate[b] = "skipped"
           /\ \E c, d \in 1..Len(ft_fate) :
                  /\ b < c /\ c < d
                  /\ c \in HeadingLines /\ ft_fate[c] = "kept"
                  /\ d \notin HeadingLines /\ ft_fate[d] = "kept"


(***************************************************************************)
(* C24: _finalize_text applied to what it returned returns the same text;  *)
(* what it returns has no line that contains a stop phrase, whatever the   *)
(* case, no line longer than 5000 characters, and no blank line but single *)
(* blank lines that stand directly before a heading line.                  *)
(***************************************************************************)
C24_Idempotent ==
    /\ ft_pc = "again" => ft_again = ft_out
    /\ ft_pc \in {"returned", "again"}
       => LET out == SplitLines(ft_out)
          IN  \A k \in 1..Len(out) :
                  /\ Len(out[k]) <= 5000
                  /\ \A p \in 1..Len(StopPhrasesExact) :
                         ~Contains(Lower(out[k]), Lower(StopPhrasesExact[p]))
                  /\ Strip(out[k]) = <<>>
                     => /\ k < Len(out)
                        /\ out[k + 1] # <<>> /\ out[k + 1][1] = 35
                        /\ k > 1
                        /\ Strip(out[k - 1]) # <<>>

\* a text with a blank line, a line with a stop phrase in lower case and a
\* line of more than 5000 characters has been finalized twice: the result
\* differs from the text and has a blank line before its heading
C24_Witness ==
    /\ ft_pc = "again"
    /\ {"blank", "stop", "long", "kept"} \subseteq {ft_fate[i] : i \in 1..Len(ft_fate)}
    /\ ft_out # ft_text
    /\ ft_again = ft_out
    /\ \E k \in 2..Len(SplitLines(ft_out)) : SplitLines(ft_out)[k] = <<>>


(***************************************************************************)
(* C25                                                                     *)
(***************************************************************************)

\* the results of the vacancy of result i
GroupOf(i) ==
    {j \in 1..Len(rp_results) : rp_results[j].vacancy_file = rp_results[i].vacancy_file}

\* the place of result i among the results of its vacancy when they are put
\* in the order of falling scores, results with equal scores staying in the
\* order in which they were given
Position(i) ==
    1 + Cardinality({j \in GroupOf(i) :
            \/ rp_results[j].total_score > rp_results[i].total_score
            \/ rp_results[j].total_score = rp_results[i].total_score /\ j < i})

\* the lines that are the heading of a candidate, and the section heading
\* (top or bottom) each of them stands under
CandidateLines == {k \in 1..Len(report_lines) : report_lines[k].kind = "candidate"}
SectionOf(k) ==
    report_lines[CHOOSE h \in 1..k :
        /\ report_lines[h].kind \in {"top", "bottom"}
        /\ \A x \in (h + 1)..k : report_lines[x].kind \notin {"top", "bottom"}].kind

=============================================================================
